---- MODULE Spec2Model ----
(***************************************************************************)
(* Model of the stateful mining proxy (src/src/proxy.ts, second            *)
(* MiningProxy class), the Stratum line codec (src/src/stats.ts,           *)
(* StratumParser) and the fee-share counter.                               *)
(*                                                                         *)
(* Spec      : the per-session state machine with its upstream sockets,    *)
(*             reconnect timers, idle sweep and fee injection.             *)
(* SpecFee   : the same handlers, restricted to the traffic that drives    *)
(*             the process-wide fee counter over many submits.             *)
(* SpecCodec : StratumParser.parse fed with a byte stream in chunks.       *)
(* SpecProbe : the pool checker (src/src/stats.ts, PoolChecker) probing    *)
(*             the enabled pools.  Further specifications restrict the     *)
(*             same handlers to the traffic of one rule each.              *)
(***************************************************************************)
EXTENDS Integers, Sequences, FiniteSets, TLC

\* ------------------------------------------------------------------------
\* Bounds of the model
\* ------------------------------------------------------------------------
MaxTimers == 2
MaxShares == 2
MaxInFlight == 1
FeeMaxShares == 10
MaxStreamLen == 4
MaxLineStreamLen == 6
RandomDen == 8
MaxPools == 2
MaxWeight == 2
MaxDialInFlight == 2
MaxRecords == 3
MaxChecks == 2

\* ------------------------------------------------------------------------
\* Program constants
\* ------------------------------------------------------------------------
IdleTimeoutMs == 600000
REALTIME_WINDOW == 60
AVG_15MIN_WINDOW == 900
AVG_24H_WINDOW == 86400
ReconnectSubscribeId == 1
DefaultDifficulty == 1000000

Sessions == {1, 2}
SockIds == {1, 2}
NullId == -1
MsgIds == {1, 2}
FeeWorker == "FEE_WALLET.proxy"
UserAgent == "mining-proxy/1.0"
FeePercents == {10, 30, 100}
Difficulties == {2}
ClockValues == {0, 1, 600000, 600001}
SubmitParams == {<<"a.w", "j1", "n1">>, <<"a.w", "j2">>}
AuthParams == {<<"a.w", "x">>, <<>>}
SubscribeResults == {"[[],e1,4]"}
OnePool == <<[weight |-> 1, enabled |-> TRUE, aleo |-> FALSE]>>

\* ------------------------------------------------------------------------
\* Protocol messages: {id, method?, params?, result?, error?}.  An absent
\* field is "" (method, result, error) or <<>> (params); JSON null is "null".
\* ------------------------------------------------------------------------
Msg(id, method, params, result, error) ==
    [id |-> id, method |-> method, params |-> params, result |-> result, error |-> error]

NoMsg == Msg(NullId, "", <<>>, "", "")

Request(id, method, params) == Msg(id, method, params, "", "")

createSubscribe(userAgent) == Request(ReconnectSubscribeId, "mining.subscribe", <<userAgent>>)

createResponse(id, result) == Msg(id, "", <<>>, result, "null")

createError(id, code) == Msg(id, "", <<>>, "null", code)

\* ------------------------------------------------------------------------
\* State
\* ------------------------------------------------------------------------
VARIABLES
    connectionId,     \* MiningProxy.connectionId
    miners,           \* keys of MiningProxy.miners (the session registry)
    conn,             \* the MinerConnection objects, by session number
    socks,            \* the upstream sockets created for each session
    timers,           \* pending reconnect setTimeout callbacks per session
    feeShareCounter,  \* MiningProxy.feeShareCounter
    config,           \* config.fees (enabled, percent)
    pools,            \* config.pools, the list of pool descriptors
    now,              \* Date.now()
    server,           \* the listening socket of the proxy: "listening" or "closed"
    emitted,          \* history: reasons of the minerDisconnected events per session
    trace,            \* history: requests received from and relayed for each session
    env,              \* limits of the environment in this run
    submitSeq,        \* history: submits that passed the guard of handleSubmit
    redirected,       \* history: submits that went upstream under the fee worker
    heard,            \* history: when each miner socket last delivered data
    last,             \* history: what the handler that ran last wrote and emitted
    stream,           \* codec: bytes still to arrive, split into chunks
    buffer,           \* codec: StratumParser.buffer
    delivered,        \* codec: messages returned by the parse calls so far
    shares,           \* HashrateCalculator.shares
    periodic,         \* the setInterval timers that are armed, and the services stopped
    poolStatus,       \* PoolChecker.poolStatus, by index in config.pools
    probe             \* PoolChecker: the checkAllPools loop and the socket of its checkPool

vars == <<connectionId, miners, conn, socks, timers, feeShareCounter, config, pools, now, env,
          server, emitted, trace, submitSeq, redirected, heard, last, stream, buffer, delivered, shares,
          periodic, poolStatus, probe>>

codecVars == <<stream, buffer, delivered>>

calcVars == <<shares>>

fixedVars == <<config, pools, env>>

lifeVars == <<periodic, poolStatus, probe>>

\* the timers armed by MiningProxy.start, StatsServer.start (with the
\* statistics API enabled) and PoolChecker.start
Started == [armed |-> {"sweep", "stats", "check"}, stopped |-> {}]

NoInfo == [set |-> FALSE, address |-> "", worker |-> "", password |-> ""]

NoCont == [kind |-> "", msg |-> NoMsg]

NoPool == 0

FreeSock == [st |-> "free", cont |-> NoCont, rx |-> <<>>, pool |-> NoPool]

\* handleMinerConnection: the fresh MinerConnection record
NewMiner(t) ==
    [socketDestroyed |-> FALSE,
     socketClosed |-> FALSE,
     minerInfo |-> NoInfo,
     poolSocket |-> 0,
     lastActivity |-> t,
     sharesSubmitted |-> 0,
     sharesAccepted |-> 0,
     sharesRejected |-> 0,
     difficulty |-> 0,
     extranonce1 |-> "",
     pendingRequests |-> [i \in MsgIds |-> NoMsg],
     isAuthorized |-> FALSE,
     isSubscribed |-> FALSE,
     isAleo |-> FALSE]

NoReq == [id |-> NullId, method |-> "", params |-> <<>>, from |-> ""]

NoLast ==
    [op |-> "init", s |-> 0, msg |-> NoMsg, req |-> NoReq, cont |-> "",
     toMiner |-> <<>>, toPool |-> <<>>, disc |-> {}, shares |-> <<>>,
     redirect |-> FALSE, draw |-> NullId, pool |-> NoPool]

\* PoolChecker.initializeStatus: the record of one pool, without its name,
\* address and timestamps; error "null" is null
FreshStatus ==
    [connected |-> FALSE, latency |-> 0, error |-> "null",
     checkCount |-> 0, successCount |-> 0, failCount |-> 0]

\* no checkAllPools loop is running and no probe socket exists; todo is the
\* rest of the pools the loop still has to probe, pool the one being probed
NoProbe ==
    [st |-> "idle", pool |-> NoPool, todo |-> <<>>, startTime |-> 0, latency |-> 0,
     resolved |-> FALSE]

\* ------------------------------------------------------------------------
\* The part of the state one handler invocation for session s can touch
\* ------------------------------------------------------------------------
World(s) ==
    [c |-> conn[s], sk |-> socks[s], timers |-> timers[s], has |-> s \in miners,
     fee |-> feeShareCounter, seq |-> submitSeq, ok |-> TRUE,
     toMiner |-> <<>>, toPool |-> <<>>, disc |-> FALSE, shares |-> <<>>,
     origin |-> "miner", redirect |-> FALSE, draw |-> NullId, pool |-> NoPool,
     reason |-> ""]

sendToMiner(w, m) ==
    IF ~w.c.socketDestroyed THEN [w EXCEPT !.toMiner = Append(@, m)] ELSE w

sendToPool(w, m) ==
    IF w.c.poolSocket # 0 /\ w.sk[w.c.poolSocket].st = "open"
    THEN [w EXCEPT !.toPool = Append(@, m),
                   !.sk[w.c.poolSocket].rx =
                       Append(@, [id |-> m.id, method |-> m.method, params |-> m.params,
                                  from |-> w.origin])]
    ELSE w

\* net.Socket.destroy(): the socket stops delivering data; its close event follows
Destroy(sk, k) ==
    IF k # 0 /\ sk[k].st = "open"
    THEN [sk EXCEPT ![k] = [st |-> "closing", cont |-> NoCont, rx |-> <<>>, pool |-> @.pool]]
    ELSE sk

FreeSlots(sk) == {k \in SockIds : k <= env.socks /\ sk[k].st = "free"}

\* variant: a session that is no longer registered is disconnected again
disconnectMiner_Unguarded(w, reason) ==
    [w EXCEPT !.sk = Destroy(w.sk, w.c.poolSocket),
              !.c.socketDestroyed = TRUE,
              !.has = FALSE,
              !.disc = TRUE,
              !.reason = reason]

disconnectMiner(w, reason) ==
    IF ~w.has THEN w
    ELSE [w EXCEPT !.sk = Destroy(w.sk, w.c.poolSocket),
                   !.c.socketDestroyed = TRUE,
                   !.has = FALSE,
                   !.disc = TRUE,
                   !.reason = reason]

\* variant: the loss of the upstream takes the miner leg down with it
handlePoolDisconnect_DropsMiner(w) ==
    disconnectMiner([w EXCEPT !.sk = Destroy(w.sk, w.c.poolSocket), !.c.poolSocket = 0],
                    "upstream")

\* variant: the loss of the upstream arms no reconnect timer
handlePoolDisconnect_NoTimer(w) ==
    IF w.c.poolSocket # 0
    THEN [w EXCEPT !.sk = Destroy(w.sk, w.c.poolSocket), !.c.poolSocket = 0]
    ELSE w

handlePoolDisconnect(w) ==
    LET w1 == IF w.c.poolSocket # 0
              THEN [w EXCEPT !.sk = Destroy(w.sk, w.c.poolSocket), !.c.poolSocket = 0]
              ELSE w
    IN  IF w1.has THEN [w1 EXCEPT !.timers = @ + 1] ELSE w1

\* ------------------------------------------------------------------------
\* Miner-side handlers
\* ------------------------------------------------------------------------
\* StratumParser.parseAuthorize on the credentials the model sends
\* fullWorker.split('.')[0]
SplitAddress(fullWorker) ==
    CASE fullWorker \in {"a.w", "a", "a.w.x"} -> "a"
      [] fullWorker = "b.w" -> "b"
      [] fullWorker = "aleo1.w" -> "aleo1"
      [] OTHER -> fullWorker

\* fullWorker.split('.').slice(1).join('.') || 'default'
SplitWorker(fullWorker) ==
    CASE fullWorker \in {"a.w", "b.w", "aleo1.w"} -> "w"
      [] fullWorker = "a.w.x" -> "w.x"
      [] OTHER -> "default"

\* `${address}.${worker}`
JoinWorker(address, worker) ==
    CASE address = "a" /\ worker = "w" -> "a.w"
      [] address = "a" /\ worker = "w.x" -> "a.w.x"
      [] address = "a" /\ worker = "default" -> "a.default"
      [] address = "b" /\ worker = "w" -> "b.w"
      [] address = "aleo1" /\ worker = "w" -> "aleo1.w"
      [] OTHER -> "?"

parseAuthorize(m) ==
    IF m.method # "mining.authorize" \/ Len(m.params) = 0 \/ m.params[1] = ""
    THEN NoInfo
    ELSE [set |-> TRUE,
          address |-> SplitAddress(m.params[1]),
          worker |-> SplitWorker(m.params[1]),
          password |-> IF Len(m.params) < 2 \/ m.params[2] = "" THEN "x" ELSE m.params[2]]

\* variant: the worker name is left out of the login
createAuthorize_AddressOnly(address, worker, password) ==
    Request(2, "mining.authorize", <<address, password>>)

createAuthorize(address, worker, password) ==
    Request(2, "mining.authorize", <<JoinWorker(address, worker), password>>)

\* AleoStratumParser.isValidAleoAddress on the addresses the model sends
isValidAleoAddress(address) == address = "aleo1"

\* handleSubscribe after the dial (if any) has completed
subscribeRelay(w, m) ==
    sendToPool([w EXCEPT !.c.isSubscribed = TRUE,
                         !.c.pendingRequests[m.id] = m],
               [createSubscribe(UserAgent) EXCEPT !.id = m.id])

\* handleAuthorize after the dial (if any) has completed
authorizeRelay(w, m) ==
    LET minerInfo == parseAuthorize(m)
    IN  sendToPool([w EXCEPT !.c.pendingRequests[m.id] = m],
                   [createAuthorize(minerInfo.address, minerInfo.worker, minerInfo.password)
                       EXCEPT !.id = m.id])

\* variant: a failed dial is not reported to the miner
resume_SilentFailure(w, cont, connected) ==
    CASE cont.kind = "subscribe" -> IF connected THEN subscribeRelay(w, cont.msg) ELSE w
      [] cont.kind = "authorize" -> IF connected THEN authorizeRelay(w, cont.msg) ELSE w
      [] cont.kind = "reconnect" ->
            IF connected /\ w.c.minerInfo.set
            THEN sendToPool([w EXCEPT !.origin = "proxy"], createSubscribe(UserAgent))
            ELSE w
      [] OTHER -> w

\* the code that awaits connectToPool, resumed with the outcome of the dial
resume(w, cont, connected) ==
    CASE cont.kind = "subscribe" ->
            IF connected THEN subscribeRelay(w, cont.msg)
            ELSE sendToMiner(w, createError(cont.msg.id, "E20"))
      [] cont.kind = "authorize" ->
            IF connected THEN authorizeRelay(w, cont.msg)
            ELSE sendToMiner(w, createError(cont.msg.id, "E20"))
      [] cont.kind = "reconnect" ->
            IF connected /\ w.c.minerInfo.set
            THEN sendToPool([w EXCEPT !.origin = "proxy"], createSubscribe(UserAgent))
            ELSE w
      [] OTHER -> w

\* ------------------------------------------------------------------------
\* Pool selection.  A descriptor is [weight, enabled, aleo], aleo standing
\* for protocol === 'aleo' || coin === 'aleo'; a pool is named by its index
\* in config.pools.  Math.random() is u / RandomDen for a draw u, and the
\* running remainder is kept in units of 1 / RandomDen.
\* ------------------------------------------------------------------------
indices(ps) == [i \in 1..Len(ps) |-> i]

RECURSIVE totalWeight(_, _)
\* pools.reduce((sum, p) => sum + p.weight, 0)
totalWeight(ps, idx) ==
    IF idx = <<>> THEN 0 ELSE ps[Head(idx)].weight + totalWeight(ps, Tail(idx))

RECURSIVE weightedLoop_Strict(_, _, _)
\* variant: a remainder of exactly zero does not select
weightedLoop_Strict(ps, idx, random) ==
    IF idx = <<>> THEN NoPool
    ELSE LET remainder == random - RandomDen * ps[Head(idx)].weight
         IN  IF remainder < 0 THEN Head(idx)
             ELSE weightedLoop_Strict(ps, Tail(idx), remainder)

RECURSIVE weightedLoop(_, _, _)
\* for (const p of pools) { random -= p.weight; if (random <= 0) return p }
weightedLoop(ps, idx, random) ==
    IF idx = <<>> THEN NoPool
    ELSE LET remainder == random - RandomDen * ps[Head(idx)].weight
         IN  IF remainder <= 0 THEN Head(idx)
             ELSE weightedLoop(ps, Tail(idx), remainder)

\* ConfigManager.getActivePool() without a protocol
getActivePool(ps, u) ==
    LET isEnabled(i) == ps[i].enabled
        enabledPools == SelectSeq(indices(ps), isEnabled)
        total == totalWeight(ps, enabledPools)
        hit == weightedLoop(ps, enabledPools, u * total)
    IN  IF enabledPools = <<>> THEN NoPool
        ELSE IF total = 0 THEN enabledPools[1]
        ELSE IF hit # NoPool THEN hit
        ELSE enabledPools[1]

getAleoPools(ps) ==
    LET isAleoPool(i) == ps[i].enabled /\ ps[i].aleo
    IN  SelectSeq(indices(ps), isAleoPool)

\* variant: the coin of the session is not looked at
selectPool_IgnoresCoin(isAleo, ps, u) == getActivePool(ps, u)

\* connectToPool: the choice of the pool to dial
selectPool(isAleo, ps, u) ==
    LET aleoPools == getAleoPools(ps)
        hit == weightedLoop(ps, aleoPools, u * totalWeight(ps, aleoPools))
        pool == IF isAleo /\ aleoPools # <<>>
                THEN IF hit # NoPool THEN hit ELSE aleoPools[1]
                ELSE NoPool
    IN  IF pool = NoPool THEN getActivePool(ps, u) ELSE pool

\* connectToPool up to the point where the dial is in flight, the awaiting
\* caller being kept as the continuation of the socket; without a pool the
\* caller is resumed at once with false
connectToPool(w, cont, u) ==
    LET pool == selectPool(w.c.isAleo, pools, u)
        w1 == [w EXCEPT !.draw = u, !.pool = pool]
    IN  IF pool = NoPool THEN resume(w1, cont, FALSE)
        ELSE IF FreeSlots(w.sk) = {} THEN [w EXCEPT !.ok = FALSE]
        ELSE LET k == CHOOSE x \in FreeSlots(w.sk) : \A y \in FreeSlots(w.sk) : x <= y
             IN  [w1 EXCEPT !.sk[k] = [st |-> "dialing", cont |-> cont, rx |-> <<>>,
                                       pool |-> pool]]

handleSubscribe(w, m, u) ==
    IF w.c.poolSocket = 0
    THEN connectToPool(w, [kind |-> "subscribe", msg |-> m], u)
    ELSE subscribeRelay(w, m)

handleAuthorize(w, m, u) ==
    LET minerInfo == parseAuthorize(m)
    IN  IF ~minerInfo.set
        THEN sendToMiner(w, createError(m.id, "E24"))
        ELSE LET w1 == [w EXCEPT !.c.minerInfo = minerInfo,
                                 !.c.isAleo = @ \/ isValidAleoAddress(minerInfo.address)]
             IN  IF w1.c.poolSocket = 0
                 THEN connectToPool(w1, [kind |-> "authorize", msg |-> m], u)
                 ELSE authorizeRelay(w1, m)

feeInterval == 100 \div config.percent

\* variant: the threshold test is strict
shouldFeeShareResult_Strict(counter) == counter + 1 > feeInterval

\* shouldFeeShare: the decision, and the counter it leaves behind
shouldFeeShareResult(counter) == counter + 1 >= feeInterval

shouldFeeShareCounter(counter) == IF counter + 1 >= feeInterval THEN 0 ELSE counter + 1

\* variant: the rewritten message is what the pending table records
submitFeeShare_PendingFee(w, m) ==
    LET feeMessage == Request(m.id, "mining.submit", <<FeeWorker>> \o Tail(m.params))
    IN  sendToPool([w EXCEPT !.c.pendingRequests[m.id] = feeMessage], feeMessage)

\* variant: the redirected submit is not recorded in the pending table
submitFeeShare_NoPending(w, m) ==
    sendToPool(w, Request(m.id, "mining.submit", <<FeeWorker>> \o Tail(m.params)))

submitFeeShare(w, m) ==
    LET feeMessage == Request(m.id, "mining.submit", <<FeeWorker>> \o Tail(m.params))
    IN  sendToPool([w EXCEPT !.c.pendingRequests[m.id] = m], feeMessage)

submitNormal(w, m) ==
    sendToPool([w EXCEPT !.c.pendingRequests[m.id] = m], m)

submitGuard(c) == c.poolSocket = 0 \/ ~c.minerInfo.set

handleSubmit(w, m, t) ==
    IF submitGuard(w.c)
    THEN sendToMiner(w, createError(m.id, "E25"))
    ELSE LET w1 == [w EXCEPT !.c.sharesSubmitted = @ + 1,
                             !.c.lastActivity = t,
                             !.seq = IF config.enabled THEN @ + 1 ELSE @]
         IN  IF config.enabled
             THEN LET w2 == [w1 EXCEPT !.fee = shouldFeeShareCounter(w1.fee)]
                  IN  IF shouldFeeShareResult(w1.fee)
                      THEN submitFeeShare([w2 EXCEPT !.redirect = TRUE], m)
                      ELSE submitNormal(w2, m)
             ELSE submitNormal(w1, m)

handleOther(w, m) ==
    IF w.c.poolSocket # 0 /\ m.id # 0 /\ m.id # NullId
    THEN sendToPool([w EXCEPT !.c.pendingRequests[m.id] = m], m)
    ELSE w

handleMinerMessage(w, m, t, u) ==
    CASE m.method = "mining.subscribe" -> handleSubscribe(w, m, u)
      [] m.method = "mining.authorize" -> handleAuthorize(w, m, u)
      [] m.method = "mining.submit" -> handleSubmit(w, m, t)
      [] m.method = "mining.extranonce.subscribe" -> sendToMiner(w, createResponse(m.id, "true"))
      [] OTHER -> handleOther(w, m)

\* handleMinerData for a chunk that holds exactly the line of message m
handleMinerData(w, m, t, u) ==
    IF ~w.has THEN w
    ELSE handleMinerMessage([w EXCEPT !.c.lastActivity = t], m, t, u)

\* ------------------------------------------------------------------------
\* Pool-side handlers
\* ------------------------------------------------------------------------
\* StratumParser.parseSubscribeResponse: null unless the result is an array
\* of at least three elements, whose second element is extranonce1
isSubscribeResult(result) == result \in SubscribeResults

extranonceOf(result) == IF result = "[[],e1,4]" THEN "e1" ELSE ""

\* variant: the difficulty of the session is reported even when it is unset
shareDifficulty_NoDefault(c) == c.difficulty

shareDifficulty(c) == IF c.difficulty > 0 THEN c.difficulty ELSE DefaultDifficulty

onSubscribeResponse(w, m) ==
    IF isSubscribeResult(m.result)
    THEN [w EXCEPT !.c.extranonce1 = extranonceOf(m.result)]
    ELSE w

\* variant: any answer to the authorize marks the session
onAuthorizeResponse_AnyResult(w, m) == [w EXCEPT !.c.isAuthorized = TRUE]

onAuthorizeResponse(w, m) ==
    IF m.result = "true" THEN [w EXCEPT !.c.isAuthorized = TRUE] ELSE w

onSubmitResponse(w, m) ==
    IF m.result = "true"
    THEN [w EXCEPT !.c.sharesAccepted = @ + 1,
                   !.shares = Append(@, <<shareDifficulty(w.c), TRUE>>)]
    ELSE [w EXCEPT !.c.sharesRejected = @ + 1,
                   !.shares = Append(@, <<shareDifficulty(w.c), FALSE>>)]

\* variant: the matched entry stays in the table
onPendingResponse_KeepEntry(w, pendingRequest, m) ==
    CASE pendingRequest.method = "mining.subscribe" -> onSubscribeResponse(w, m)
      [] pendingRequest.method = "mining.authorize" -> onAuthorizeResponse(w, m)
      [] pendingRequest.method = "mining.submit" -> onSubmitResponse(w, m)
      [] OTHER -> w

onPendingResponse(w, pendingRequest, m) ==
    LET w0 == [w EXCEPT !.c.pendingRequests[m.id] = NoMsg]
    IN  CASE pendingRequest.method = "mining.subscribe" -> onSubscribeResponse(w0, m)
          [] pendingRequest.method = "mining.authorize" -> onAuthorizeResponse(w0, m)
          [] pendingRequest.method = "mining.submit" -> onSubmitResponse(w0, m)
          [] OTHER -> w0

\* The first parameter of mining.set_target is [type, value]: a JSON number,
\* or a non-empty JSON string (type "string", its text left out).
\* `target && target[0]`
hasTarget(params) ==
    Len(params) > 0 /\ (params[1].type = "string" \/ params[1].value # 0)

\* typeof target[0] === 'number' ? target[0] : 1
targetDiff(params) == IF params[1].type = "number" THEN params[1].value ELSE 1

onSetTarget(w, m) ==
    IF hasTarget(m.params) THEN [w EXCEPT !.c.difficulty = targetDiff(m.params)] ELSE w

handlePoolMessage(w, m) ==
    IF m.id # NullId
    THEN LET pendingRequest == IF m.id \in MsgIds THEN w.c.pendingRequests[m.id] ELSE NoMsg
             w1 == IF pendingRequest # NoMsg THEN onPendingResponse(w, pendingRequest, m) ELSE w
         IN  sendToMiner(w1, m)
    ELSE IF m.method = "mining.set_difficulty"
         THEN sendToMiner([w EXCEPT !.c.difficulty = m.params[1]], m)
         ELSE IF m.method = "mining.set_target"
              THEN sendToMiner(onSetTarget(w, m), m)
              ELSE sendToMiner(w, m)

handlePoolData(w, m) ==
    IF w.c.poolSocket = 0 THEN w ELSE handlePoolMessage(w, m)

\* poolSocket.on('connect')
onPoolConnect(w, k) ==
    resume([w EXCEPT !.sk[k] = [st |-> "open", cont |-> NoCont, rx |-> <<>>, pool |-> @.pool],
                     !.c.poolSocket = k],
           w.sk[k].cont, TRUE)

\* poolSocket.on('error'): the socket is destroyed and its close event follows
onPoolError(w, k) ==
    LET w1 == [w EXCEPT !.sk[k] = [st |-> "closing", cont |-> NoCont, rx |-> <<>>,
                                   pool |-> @.pool]]
        w2 == handlePoolDisconnect(w1)
    IN  IF w.sk[k].st = "dialing" THEN resume(w2, w.sk[k].cont, FALSE) ELSE w2

\* poolSocket.on('close')
onPoolClose(w, k) ==
    LET w1 == handlePoolDisconnect(
                  [w EXCEPT !.sk[k] = [st |-> "closing", cont |-> NoCont, rx |-> <<>>,
                                       pool |-> @.pool]])
    IN  [w1 EXCEPT !.sk[k] = FreeSock]

\* variant: the callback dials without looking at the registry
onReconnectTimer_Unchecked(w, u) ==
    connectToPool([w EXCEPT !.timers = @ - 1], [kind |-> "reconnect", msg |-> NoMsg], u)

\* the setTimeout callback of handlePoolDisconnect
onReconnectTimer(w, u) ==
    LET w1 == [w EXCEPT !.timers = @ - 1]
    IN  IF w1.has THEN connectToPool(w1, [kind |-> "reconnect", msg |-> NoMsg], u) ELSE w1

\* variant: the comparison with the idle limit is not strict
isInactive_AtLimit(t, lastActivity) == t - lastActivity >= IdleTimeoutMs

isInactive(t, lastActivity) == t - lastActivity > IdleTimeoutMs

\* ------------------------------------------------------------------------
\* Actions of the session machine
\* ------------------------------------------------------------------------
MinerRequests(ids) ==
    {Request(i, "mining.subscribe", <<"miner/1">>) : i \in ids}
    \cup {Request(i, "mining.authorize", p) : i \in ids, p \in AuthParams}
    \cup {Request(i, "mining.submit", p) : i \in ids, p \in SubmitParams}
    \cup {Request(i, "mining.extranonce.subscribe", <<>>) : i \in ids}
    \cup {Request(i, "mining.get_transactions", <<>>) : i \in ids}

\* what an honest pool answers to a request it received
PoolAnswers(r) ==
    CASE r.method = "mining.subscribe" ->
            {Msg(r.id, "", <<>>, x, "null") : x \in SubscribeResults}
            \cup {Msg(r.id, "", <<>>, "null", "Epool")}
      [] r.method = "mining.authorize" ->
            {Msg(r.id, "", <<>>, "true", "null"), Msg(r.id, "", <<>>, "false", "null"),
             Msg(r.id, "", <<>>, "1", "null")}
      [] r.method = "mining.submit" ->
            {Msg(r.id, "", <<>>, "true", "null"), Msg(r.id, "", <<>>, "null", "Epool")}
      [] OTHER -> {Msg(r.id, "", <<>>, "true", "null")}

PoolRequests ==
    {[id |-> i, method |-> x] : i \in MsgIds,
        x \in {"mining.subscribe", "mining.authorize", "mining.submit", "mining.get_transactions"}}

PoolNotifications ==
    {Msg(NullId, "mining.set_difficulty", <<d>>, "", "") : d \in Difficulties}
    \cup {Msg(NullId, "mining.notify", <<>>, "", "")}

RECURSIVE keysOf(_)
\* what identifies the requests of a sequence in the trace: id and method
keysOf(out) ==
    IF out = <<>> THEN <<>> ELSE <<<<Head(out).id, Head(out).method>>>> \o keysOf(Tail(out))

Range(f) == {f[i] : i \in DOMAIN f}

\* with env.trace, a run logs the requests of each session, and a miner
\* sends each request once
Traced(s, w, op, m) ==
    IF ~env.trace THEN trace
    ELSE [trace EXCEPT ![s].sent = IF op = "minerData" THEN Append(@, <<m.id, m.method>>) ELSE @,
                       ![s].relayed = @ \o keysOf(w.toPool)]

Commit(s, k, w, op, m) ==
    /\ w.ok
    /\ (env.trace /\ op = "minerData") => <<m.id, m.method>> \notin Range(trace[s].sent)
    /\ trace' = Traced(s, w, op, m)
    /\ w.timers <= MaxTimers
    /\ w.c.sharesSubmitted <= env.shares
    /\ \A j \in SockIds : Len(w.sk[j].rx) <= env.inflight
    /\ conn' = [conn EXCEPT ![s] = w.c]
    /\ socks' = [socks EXCEPT ![s] = w.sk]
    /\ timers' = [timers EXCEPT ![s] = w.timers]
    /\ miners' = IF w.has THEN miners ELSE miners \ {s}
    /\ feeShareCounter' = w.fee
    /\ submitSeq' = w.seq
    /\ redirected' = IF w.redirect THEN redirected + 1 ELSE redirected
    /\ emitted' = IF w.disc THEN [emitted EXCEPT ![s] = Append(@, w.reason)] ELSE emitted
    /\ heard' = IF op \in {"minerData", "minerChunk"}
                 THEN [heard EXCEPT ![s] = now] ELSE heard
    /\ last' = [op |-> op, s |-> s, msg |-> m,
                req |-> IF op = "poolResponse" THEN Head(socks[s][k].rx) ELSE NoReq,
                cont |-> IF op \in {"poolConnect", "poolError"}
                         THEN socks[s][k].cont.kind ELSE "",
                toMiner |-> w.toMiner, toPool |-> w.toPool,
                disc |-> IF w.disc THEN {s} ELSE {}, shares |-> w.shares,
                redirect |-> w.redirect, draw |-> w.draw, pool |-> w.pool]

\* handleMinerConnection
Accept ==
    /\ server = "listening"
    /\ connectionId < env.conns
    /\ connectionId' = connectionId + 1
    /\ miners' = miners \cup {connectionId + 1}
    /\ conn' = [conn EXCEPT ![connectionId + 1] = NewMiner(now)]
    /\ heard' = [heard EXCEPT ![connectionId + 1] = now]
    /\ last' = [NoLast EXCEPT !.op = "accept", !.s = connectionId + 1]
    /\ UNCHANGED <<socks, timers, feeShareCounter, now, submitSeq, redirected, server, emitted, trace>>
    /\ UNCHANGED fixedVars
    /\ UNCHANGED lifeVars
    /\ UNCHANGED codecVars
    /\ UNCHANGED calcVars

\* socket.on('data') of the miner socket
MinerData(s, m) ==
    /\ s \in miners
    /\ \E u \in env.draws : Commit(s, 0, handleMinerData(World(s), m, now, u), "minerData", m)
    /\ UNCHANGED <<connectionId, now, server>>
    /\ UNCHANGED fixedVars
    /\ UNCHANGED lifeVars
    /\ UNCHANGED codecVars
    /\ UNCHANGED calcVars

\* the reason each listener of the miner socket passes to disconnectMiner
reasonOf(ev) ==
    CASE ev = "error" -> "error"
      [] ev = "close" -> "closed"
      [] ev = "timeout" -> "timeout"

opOf(ev) ==
    CASE ev = "error" -> "minerError"
      [] ev = "close" -> "minerClose"
      [] ev = "timeout" -> "minerTimeout"

\* the listeners of the miner socket for error, close and timeout
onMinerEvent(w, ev) ==
    LET w1 == disconnectMiner(w, reasonOf(ev))
    IN  IF ev = "close" THEN [w1 EXCEPT !.c.socketClosed = TRUE] ELSE w1

\* an error or timeout of an open miner socket, or the close event that
\* every miner socket emits once, also after it was destroyed
MinerEvent(s, ev) ==
    /\ s <= connectionId
    /\ ~conn[s].socketClosed
    /\ ev \in {"error", "timeout"} => ~conn[s].socketDestroyed
    /\ Commit(s, 0, onMinerEvent(World(s), ev), opOf(ev), NoMsg)
    /\ UNCHANGED <<connectionId, now, server>>
    /\ UNCHANGED fixedVars
    /\ UNCHANGED lifeVars
    /\ UNCHANGED codecVars
    /\ UNCHANGED calcVars

\* the miner closes its connection
MinerGone(s) ==
    /\ s \in miners
    /\ Commit(s, 0, onMinerEvent(World(s), "close"), "minerGone", NoMsg)
    /\ UNCHANGED <<connectionId, now, server>>
    /\ UNCHANGED fixedVars
    /\ UNCHANGED lifeVars
    /\ UNCHANGED codecVars
    /\ UNCHANGED calcVars

PoolConnect(s, k) ==
    /\ socks[s][k].st = "dialing"
    /\ Commit(s, k, onPoolConnect(World(s), k), "poolConnect", socks[s][k].cont.msg)
    /\ UNCHANGED <<connectionId, now, server>>
    /\ UNCHANGED fixedVars
    /\ UNCHANGED lifeVars
    /\ UNCHANGED codecVars
    /\ UNCHANGED calcVars

PoolError(s, k) ==
    /\ socks[s][k].st \in {"dialing", "open"}
    /\ Commit(s, k, onPoolError(World(s), k), "poolError", socks[s][k].cont.msg)
    /\ UNCHANGED <<connectionId, now, server>>
    /\ UNCHANGED fixedVars
    /\ UNCHANGED lifeVars
    /\ UNCHANGED codecVars
    /\ UNCHANGED calcVars

\* close event: after an error, after destroy(), or when the pool ends the connection
PoolClose(s, k) ==
    /\ socks[s][k].st \in {"closing", "open"}
    /\ Commit(s, k, onPoolClose(World(s), k), "poolClose", NoMsg)
    /\ UNCHANGED <<connectionId, now, server>>
    /\ UNCHANGED fixedVars
    /\ UNCHANGED lifeVars
    /\ UNCHANGED codecVars
    /\ UNCHANGED calcVars

\* poolSocket.on('data'): the pool answers a request it received on this socket
PoolResponse(s, k, m) ==
    /\ socks[s][k].st = "open"
    /\ socks[s][k].rx # <<>>
    /\ m \in PoolAnswers(Head(socks[s][k].rx))
    /\ Commit(s, k, handlePoolData([World(s) EXCEPT !.sk[k].rx = Tail(@)], m),
              "poolResponse", m)
    /\ UNCHANGED <<connectionId, now, server>>
    /\ UNCHANGED fixedVars
    /\ UNCHANGED lifeVars
    /\ UNCHANGED codecVars
    /\ UNCHANGED calcVars

\* poolSocket.on('data'): the pool sends a notification
PoolNotify(s, k, m) ==
    /\ socks[s][k].st = "open"
    /\ Commit(s, k, handlePoolData(World(s), m), "poolNotify", m)
    /\ UNCHANGED <<connectionId, now, server>>
    /\ UNCHANGED fixedVars
    /\ UNCHANGED lifeVars
    /\ UNCHANGED codecVars
    /\ UNCHANGED calcVars

ReconnectTimer(s) ==
    /\ timers[s] > 0
    /\ \E u \in env.draws : Commit(s, 0, onReconnectTimer(World(s), u), "reconnectTimer", NoMsg)
    /\ UNCHANGED <<connectionId, now, server>>
    /\ UNCHANGED fixedVars
    /\ UNCHANGED lifeVars
    /\ UNCHANGED codecVars
    /\ UNCHANGED calcVars

\* cleanupInactiveConnections
Swept == {s \in miners : isInactive(now, conn[s].lastActivity)}

\* disconnectMiner called for every session of the set S
DisconnectAll(S, reason) ==
    /\ conn' = [s \in Sessions |->
                   IF s \in S THEN disconnectMiner(World(s), reason).c ELSE conn[s]]
    /\ socks' = [s \in Sessions |->
                    IF s \in S THEN disconnectMiner(World(s), reason).sk ELSE socks[s]]
    /\ miners' = miners \ S
    /\ emitted' = [s \in Sessions |->
                      IF s \in S /\ s \in miners THEN Append(emitted[s], reason) ELSE emitted[s]]

Sweep ==
    /\ "sweep" \in periodic.armed
    /\ DisconnectAll(Swept, "inactive")
    /\ last' = [NoLast EXCEPT !.op = "sweep", !.disc = Swept]
    /\ UNCHANGED <<connectionId, timers, feeShareCounter, now, submitSeq, redirected, heard, server,
                   trace>>
    /\ UNCHANGED fixedVars
    /\ UNCHANGED lifeVars
    /\ UNCHANGED codecVars
    /\ UNCHANGED calcVars

\* stop()
Stop ==
    /\ server = "listening"
    /\ DisconnectAll(miners, "shutdown")
    /\ server' = "closed"
    /\ last' = [NoLast EXCEPT !.op = "stop", !.disc = miners]
    /\ UNCHANGED <<connectionId, timers, feeShareCounter, now, submitSeq, redirected, heard, trace>>
    /\ UNCHANGED fixedVars
    /\ UNCHANGED lifeVars
    /\ UNCHANGED codecVars
    /\ UNCHANGED calcVars

\* PoolChecker.stop()
CheckerStop ==
    /\ "checker" \notin periodic.stopped
    /\ periodic' = [armed |-> periodic.armed \ {"check"},
                    stopped |-> periodic.stopped \cup {"checker"}]
    /\ last' = [NoLast EXCEPT !.op = "checkerStop"]
    /\ UNCHANGED <<poolStatus, probe>>
    /\ UNCHANGED <<connectionId, miners, conn, socks, timers, feeShareCounter, now,
                   submitSeq, redirected, heard, server, emitted, trace>>
    /\ UNCHANGED fixedVars
    /\ UNCHANGED codecVars
    /\ UNCHANGED calcVars

\* StatsServer.stop(), which the shutdown calls once MiningProxy.stop() is done
StatsStop ==
    /\ server = "closed"
    /\ "stats" \notin periodic.stopped
    /\ periodic' = [periodic EXCEPT !.stopped = @ \cup {"stats"}]
    /\ last' = [NoLast EXCEPT !.op = "statsStop"]
    /\ UNCHANGED <<poolStatus, probe>>
    /\ UNCHANGED <<connectionId, miners, conn, socks, timers, feeShareCounter, now,
                   submitSeq, redirected, heard, server, emitted, trace>>
    /\ UNCHANGED fixedVars
    /\ UNCHANGED codecVars
    /\ UNCHANGED calcVars

Tick ==
    /\ \E t \in ClockValues : t > now /\ now' = t
    /\ last' = [NoLast EXCEPT !.op = "tick"]
    /\ UNCHANGED <<connectionId, miners, conn, socks, timers, feeShareCounter,
                   submitSeq, redirected, heard, server, emitted, trace>>
    /\ UNCHANGED fixedVars
    /\ UNCHANGED lifeVars
    /\ UNCHANGED codecVars
    /\ UNCHANGED calcVars

InitProxy(fees, limits) ==
    /\ config \in fees
    /\ env = limits
    /\ connectionId = 0
    /\ miners = {}
    /\ conn = [s \in Sessions |-> NewMiner(0)]
    /\ socks = [s \in Sessions |-> [k \in SockIds |-> FreeSock]]
    /\ timers = [s \in Sessions |-> 0]
    /\ feeShareCounter = 0
    /\ now = 0
    /\ submitSeq = 0
    /\ redirected = 0
    /\ heard = [s \in Sessions |-> 0]
    /\ server = "listening"
    /\ periodic = Started
    /\ poolStatus = [i \in 1..MaxPools |-> FreshStatus]
    /\ probe = NoProbe
    /\ emitted = [s \in Sessions |-> <<>>]
    /\ trace = [s \in Sessions |-> [sent |-> <<>>, relayed |-> <<>>]]
    /\ last = NoLast

InitCodecIdle ==
    /\ stream = [all |-> <<>>, rest |-> <<>>]
    /\ buffer = <<>>
    /\ delivered = <<>>
    /\ shares = <<>>

\* one session, with fee injection at 50 percent
Init ==
    /\ InitProxy([enabled : {TRUE}, percent : {50}],
                 [conns |-> 1, socks |-> 1, shares |-> MaxShares, inflight |-> MaxInFlight,
                  draws |-> {0}, trace |-> FALSE])
    /\ pools = OnePool
    /\ InitCodecIdle

Next ==
    \/ Accept
    \/ \E s \in Sessions, m \in MinerRequests({1}) : MinerData(s, m)
    \/ \E s \in Sessions : MinerGone(s)
    \/ \E s \in Sessions, k \in SockIds : PoolConnect(s, k)
    \/ \E s \in Sessions, k \in SockIds : PoolError(s, k)
    \/ \E s \in Sessions, k \in SockIds : PoolClose(s, k)
    \/ \E s \in Sessions, k \in SockIds :
          \E m \in UNION {PoolAnswers(r) : r \in PoolRequests} : PoolResponse(s, k, m)
    \/ \E s \in Sessions, k \in SockIds, m \in PoolNotifications : PoolNotify(s, k, m)
    \/ \E s \in Sessions : ReconnectTimer(s)

Spec == Init /\ [][Next]_vars

\* ------------------------------------------------------------------------
\* Claims about the session machine
\* ------------------------------------------------------------------------
LiveUpstream(s) == conn[s].poolSocket # 0 /\ socks[s][conn[s].poolSocket].st = "open"

SubmitHandled(s) ==
    last.op = "minerData" /\ last.s = s /\ last.msg.method = "mining.submit"

Reconnected(s) ==
    last.op = "poolConnect" /\ last.s = s /\ last.cont = "reconnect" /\ s \in miners

Wrote(out, method) == \E i \in 1..Len(out) : out[i].method = method

\* C1: a mining.submit handled while the session is not Authorized, or has
\* no live upstream, is answered at once with the unauthorized error on the
\* submit's id and nothing is written upstream.
C1_SubmitNeedsAuthorized ==
    \A s \in Sessions :
        (SubmitHandled(s) /\ (~conn[s].isAuthorized \/ ~LiveUpstream(s)))
            => /\ last.toPool = <<>>
               /\ last.toMiner = <<createError(last.msg.id, "E25")>>

\* C3: a redirected submit goes upstream with the miner's id and method and
\* with every parameter but the first unchanged, the first being the fee
\* worker; the pending table holds the miner's own request under that id.
C3_RedirectRewritesOnlyWorker ==
    \A s \in Sessions :
        (SubmitHandled(s) /\ last.redirect)
            => /\ Len(last.toPool) = 1
               /\ last.toPool[1].id = last.msg.id
               /\ last.toPool[1].method = last.msg.method
               /\ last.toPool[1].result = last.msg.result
               /\ last.toPool[1].error = last.msg.error
               /\ Len(last.toPool[1].params) = Len(last.msg.params)
               /\ last.toPool[1].params[1] = FeeWorker
               /\ \A i \in 2..Len(last.msg.params) :
                      last.toPool[1].params[i] = last.msg.params[i]
               /\ conn[s].pendingRequests[last.msg.id] = last.msg

C3_Witness ==
    \E s \in Sessions :
        /\ SubmitHandled(s)
        /\ last.redirect
        /\ last.toPool # <<>>
        /\ last.msg.params[1] # FeeWorker

\* C4: from any state in which a session accepts a submit, relaying it as it
\* is and relaying it redirected lead, for the same answer of the pool, to
\* the same message for the miner, the same counters and the same share
\* record.
MinerView(w) ==
    [toMiner |-> w.toMiner,
     accepted |-> w.c.sharesAccepted,
     rejected |-> w.c.sharesRejected,
     shares |-> w.shares,
     pending |-> w.c.pendingRequests]

SubmitAnswers(i) ==
    {Msg(i, "", <<>>, "true", "null"), Msg(i, "", <<>>, "false", "null"),
     Msg(i, "", <<>>, "null", "Epool")}

C4_RedirectInvisible ==
    \A s \in miners :
        ~submitGuard(conn[s]) =>
            \A i \in MsgIds : \A p \in SubmitParams : \A r \in SubmitAnswers(i) :
                MinerView(handlePoolData(submitNormal(World(s), Request(i, "mining.submit", p)), r))
                    = MinerView(handlePoolData(submitFeeShare(World(s), Request(i, "mining.submit", p)), r))

\* the answer to a redirected submit has been handled and relayed
C4_Witness ==
    /\ last.op = "poolResponse"
    /\ last.req.method = "mining.submit"
    /\ last.req.params[1] = FeeWorker
    /\ last.toMiner = <<last.msg>>
    /\ Len(last.shares) = 1

\* C5: a response relayed from the upstream to a miner answers a request
\* that the miner itself sent, never one that the proxy originated.
C5_RelayedResponsesAreMiners ==
    (last.op = "poolResponse" /\ last.toMiner # <<>>) => last.req.from = "miner"

\* C6: an upstream error, close, reconnect attempt or reconnect leaves the
\* miner socket open and the session registered, and emits no disconnect.
UpstreamOps == {"poolError", "poolClose", "reconnectTimer", "poolConnect"}

C6_UpstreamLossKeepsMiner ==
    [][\A s \in Sessions :
          (last'.op \in UpstreamOps /\ last'.s = s)
              => /\ (s \in miners) = (s \in miners')
                 /\ conn'[s].socketDestroyed = conn[s].socketDestroyed
                 /\ last'.disc = {}]_vars

C6_Witness ==
    \E s \in Sessions :
        /\ Reconnected(s)
        /\ ~conn[s].socketDestroyed
        /\ LiveUpstream(s)

\* C7: every successful reconnect of a session that still exists re-issues
\* a subscribe on the new upstream connection.
C7_ReconnectResubscribes ==
    \A s \in Sessions : Reconnected(s) => Wrote(last.toPool, "mining.subscribe")

\* C8: a successful reconnect of a session that is Authorized re-issues an
\* authorize on the new upstream connection.
C8_ReconnectReauthorizes ==
    \A s \in Sessions :
        (Reconnected(s) /\ conn[s].isAuthorized) => Wrote(last.toPool, "mining.authorize")

\* an upstream message with an id is being matched, in the step, against
\* the pending authorize of session s
MatchesPendingAuthorize(s) ==
    /\ last'.op \in {"poolResponse", "poolNotify"}
    /\ last'.s = s
    /\ conn[s].poolSocket # 0
    /\ last'.msg.id \in MsgIds
    /\ conn[s].pendingRequests[last'.msg.id].method = "mining.authorize"

\* JavaScript truthiness of the results the pool sends
truthy(result) == result \notin {"false", "null", ""}

\* C18 as stated: the Authorized flag becomes true exactly in the steps
\* that match an upstream response with a truthy result against the pending
\* authorize of the session.
C18_AuthorizedIffTruthy ==
    [][\A s \in Sessions :
          conn'[s].isAuthorized
              <=> \/ conn[s].isAuthorized
                  \/ MatchesPendingAuthorize(s) /\ truthy(last'.msg.result)]_vars

\* C18 (amended): the Authorized flag becomes true exactly in the steps
\* that match an upstream response whose result is the boolean true against
\* the pending authorize of the session; every other step, and every other
\* result, leaves the flag as it was.
C18_AuthorizedIffTrue ==
    [][\A s \in Sessions :
          conn'[s].isAuthorized
              <=> \/ conn[s].isAuthorized
                  \/ MatchesPendingAuthorize(s) /\ last'.msg.result = "true"]_vars

\* the pool answered the authorize of a session with true
C18_Witness ==
    \E s \in Sessions :
        /\ last.op = "poolResponse"
        /\ last.s = s
        /\ last.req.method = "mining.authorize"
        /\ last.req.from = "miner"
        /\ last.msg.result = "true"
        /\ conn[s].isAuthorized

\* C22: the Subscribed flag of a session becomes true only in the step that
\* handles the upstream response to its relayed subscribe, when that
\* response carries no error; the step also stores the extranonce of the
\* response.
C22_SubscribedOnResponse ==
    [][\A s \in Sessions :
          (conn'[s].isSubscribed /\ ~conn[s].isSubscribed)
              => /\ last'.op = "poolResponse"
                 /\ last'.s = s
                 /\ last'.req.method = "mining.subscribe"
                 /\ last'.msg.error = "null"
                 /\ conn'[s].extranonce1 = extranonceOf(last'.msg.result)]_vars

\* C26: in every state a session that is Authorized is also Subscribed.
C26_AuthorizedImpliesSubscribed ==
    \A s \in Sessions : conn[s].isAuthorized => conn[s].isSubscribed

\* an upstream message with an id is being matched, in the step, against
\* a pending submit of session s
MatchesPendingSubmit(s) ==
    /\ last'.op \in {"poolResponse", "poolNotify"}
    /\ last'.s = s
    /\ conn[s].poolSocket # 0
    /\ last'.msg.id \in MsgIds
    /\ conn[s].pendingRequests[last'.msg.id].method = "mining.submit"

\* C27: the step that matches an upstream response against a pending
\* submit adds one to the accepted counter when the result is true and one
\* to the rejected counter otherwise, leaves the other counter alone, and
\* reports one share record: the difficulty of the session when it is
\* positive, 1000000 otherwise, and whether the result was true.
C27_SubmitResponseCountsOnce ==
    [][\A s \in Sessions :
          MatchesPendingSubmit(s)
              => LET accepted == last'.msg.result = "true"
                     d == IF conn[s].difficulty > 0 THEN conn[s].difficulty ELSE 1000000
                 IN  /\ conn'[s].sharesAccepted
                           = conn[s].sharesAccepted + (IF accepted THEN 1 ELSE 0)
                     /\ conn'[s].sharesRejected
                           = conn[s].sharesRejected + (IF accepted THEN 0 ELSE 1)
                     /\ conn'[s].sharesSubmitted = conn[s].sharesSubmitted
                     /\ last'.shares = <<<<d, accepted>>>>]_vars

\* a submit of a session that was never told a difficulty was accepted by
\* the pool, and the record carries the default difficulty
C27_Witness ==
    \E s \in Sessions :
        /\ last.op = "poolResponse"
        /\ last.s = s
        /\ last.req.method = "mining.submit"
        /\ last.msg.result = "true"
        /\ conn[s].difficulty = 0
        /\ conn[s].sharesAccepted = 1
        /\ conn[s].sharesRejected = 0
        /\ last.shares = <<<<DefaultDifficulty, TRUE>>>>

\* C35: in every state, for every session, the accepted and the rejected
\* shares together never exceed the submitted shares.
C35_JudgedWithinSubmitted ==
    \A s \in Sessions :
        conn[s].sharesAccepted + conn[s].sharesRejected <= conn[s].sharesSubmitted

C35_Witness ==
    \E s \in Sessions :
        /\ last.op = "poolResponse"
        /\ last.s = s
        /\ last.req.method = "mining.submit"
        /\ conn[s].sharesAccepted = 1
        /\ conn[s].sharesRejected = 1
        /\ conn[s].sharesSubmitted = 2

\* C36: the accepted and rejected counts of a session, and the hashrate
\* records, change only in a step that handles the pool's answer to a
\* mining.submit the session itself relayed on that upstream connection.
C36_OnlySubmitRepliesCount ==
    [][\A s \in Sessions :
          (\/ conn'[s].sharesAccepted # conn[s].sharesAccepted
           \/ conn'[s].sharesRejected # conn[s].sharesRejected
           \/ (last'.s = s /\ last'.shares # <<>>))
              => /\ last'.op = "poolResponse"
                 /\ last'.s = s
                 /\ last'.req.method = "mining.submit"
                 /\ last'.req.from = "miner"]_vars

\* ------------------------------------------------------------------------
\* SpecFee: two sessions that authorize and then submit, against a pool
\* that accepts everything, for several fee percentages
\* ------------------------------------------------------------------------
FeeTraffic ==
    {Request(1, "mining.authorize", <<"a.w", "x">>)}
    \cup {Request(i, "mining.submit", p) : i \in MsgIds, p \in SubmitParams}

InitFee ==
    /\ InitProxy([enabled : {TRUE}, percent : FeePercents],
                 [conns |-> 2, socks |-> 1, shares |-> FeeMaxShares, inflight |-> 1,
                  draws |-> {0}, trace |-> FALSE])
    /\ pools = OnePool
    /\ InitCodecIdle

NextFee ==
    \/ Accept
    \/ \E s \in Sessions, m \in FeeTraffic : MinerData(s, m)
    \/ \E s \in Sessions, k \in SockIds : PoolConnect(s, k)
    \/ \E s \in Sessions, k \in SockIds, i \in MsgIds :
          PoolResponse(s, k, Msg(i, "", <<>>, "true", "null"))

SpecFee == InitFee /\ [][NextFee]_vars

\* C2: with fee injection enabled at percent p, the k-th submit relayed by
\* the process, whatever session it comes from, is redirected to the fee
\* worker exactly when k is a multiple of floor(100 / p).
C2_EveryNthSubmitRedirected ==
    \A s \in Sessions :
        (SubmitHandled(s) /\ last.toPool # <<>>)
            => ((last.toPool[1].params[1] = FeeWorker)
                    <=> (submitSeq % (100 \div config.percent) = 0))

\* the twentieth submit at 10 percent, with both sessions having submitted
\* C37: with fee injection enabled at percent p, after n submits relayed
\* process-wide the redirected ones are at most p percent of them:
\* 100 * redirected <= p * n.
C37_RedirectedWithinPercent ==
    config.enabled => 100 * redirected <= config.percent * submitSeq

C2_Witness ==
    /\ config.percent = 10
    /\ submitSeq = 20
    /\ \E s \in Sessions : SubmitHandled(s) /\ last.toPool[1].params[1] = FeeWorker
    /\ \A s \in Sessions : conn[s].sharesSubmitted > 0

\* ------------------------------------------------------------------------
\* SpecIdle: two sessions in various states, the clock and the idle sweep
\* ------------------------------------------------------------------------
IdleTraffic ==
    {Request(1, "mining.subscribe", <<"miner/1">>),
     Request(1, "mining.authorize", <<"a.w", "x">>)}
    \cup {Request(1, "mining.submit", p) : p \in SubmitParams}

InitIdle ==
    /\ InitProxy([enabled : {FALSE}, percent : {50}],
                 [conns |-> 2, socks |-> 1, shares |-> 1, inflight |-> 1,
                  draws |-> {0}, trace |-> FALSE])
    /\ pools = OnePool
    /\ InitCodecIdle

NextIdle ==
    \/ Accept
    \/ \E s \in Sessions, m \in IdleTraffic : MinerData(s, m)
    \/ \E s \in Sessions, k \in SockIds : PoolConnect(s, k)
    \/ \E s \in Sessions, k \in SockIds : PoolResponse(s, k, Msg(1, "", <<>>, "true", "null"))
    \/ Sweep
    \/ Tick

SpecIdle == InitIdle /\ [][NextIdle]_vars

\* C9: an idle sweep removes exactly the registered sessions whose miner
\* socket last delivered data more than 600 seconds ago, and emits the
\* disconnect for exactly those.
C9_SweepRemovesExactlyIdle ==
    [][last'.op = "sweep"
          => /\ miners \ miners' = {s \in miners : now - heard[s] > 600000}
             /\ miners' \subseteq miners
             /\ last'.disc = miners \ miners'
             /\ \A s \in miners \ miners' : conn'[s].socketDestroyed]_vars

\* a sweep removed one session and kept one that was idle for exactly 600 s
C9_Witness ==
    /\ last.op = "sweep"
    /\ last.disc # {}
    /\ \E s \in miners : now - heard[s] = 600000

\* ------------------------------------------------------------------------
\* The line codec (StratumParser.parse)
\*
\* Bytes: "a" an ASCII character, "SP" a blank, "NL" the newline, "!" an
\* ASCII character that breaks the JSON syntax of a line, "L" "C" the lead
\* and the continuation byte of a two-byte UTF-8 character.  Characters of
\* the decoded string: "a", "SP", "NL", "!", "LC" (the two-byte character)
\* and "FFFD" (the replacement character).  A line stands for the JSON text
\* whose one string value is the text of the line, so that JSON.parse yields
\* a message that is identified by the characters of the line.
\* ------------------------------------------------------------------------
Bytes == {"a", "SP", "NL", "!", "L", "C"}

RECURSIVE toString(_)
\* Buffer.toString(): UTF-8 decoding of one chunk on its own
toString(data) ==
    IF data = <<>> THEN <<>>
    ELSE IF Head(data) = "L"
         THEN IF Len(data) >= 2 /\ data[2] = "C"
              THEN <<"LC">> \o toString(Tail(Tail(data)))
              ELSE <<"FFFD">> \o toString(Tail(data))
         ELSE IF Head(data) = "C"
              THEN <<"FFFD">> \o toString(Tail(data))
              ELSE <<Head(data)>> \o toString(Tail(data))

\* String.prototype.indexOf('\n'), 1-based; 0 when there is none
indexOfNewline(str) ==
    IF \E i \in 1..Len(str) : str[i] = "NL"
    THEN CHOOSE i \in 1..Len(str) : str[i] = "NL" /\ \A j \in 1..(i - 1) : str[j] # "NL"
    ELSE 0

RECURSIVE trimStart(_)
trimStart(str) ==
    IF str # <<>> /\ Head(str) = "SP" THEN trimStart(Tail(str)) ELSE str

RECURSIVE trimEnd(_)
trimEnd(str) ==
    IF str # <<>> /\ str[Len(str)] = "SP" THEN trimEnd(SubSeq(str, 1, Len(str) - 1)) ELSE str

trim(str) == trimEnd(trimStart(str))

\* JSON.parse succeeds on the line
jsonParses(line) == \A i \in 1..Len(line) : line[i] # "!"

RECURSIVE parseLoop_StopsAtBadLine(_, _)
\* variant: a line that fails to decode ends the loop and empties the buffer
parseLoop_StopsAtBadLine(buf, messages) ==
    LET newlineIndex == indexOfNewline(buf)
    IN  IF newlineIndex = 0
        THEN [buffer |-> buf, messages |-> messages]
        ELSE LET line == trim(SubSeq(buf, 1, newlineIndex - 1))
                 rest == SubSeq(buf, newlineIndex + 1, Len(buf))
             IN  IF Len(line) > 0 /\ ~jsonParses(line)
                 THEN [buffer |-> <<>>, messages |-> messages]
                 ELSE IF Len(line) > 0
                      THEN parseLoop_StopsAtBadLine(rest, Append(messages, line))
                      ELSE parseLoop_StopsAtBadLine(rest, messages)

RECURSIVE parseLoop(_, _)
\* the while loop of parse: [buffer, messages] once no newline is left
parseLoop(buf, messages) ==
    LET newlineIndex == indexOfNewline(buf)
    IN  IF newlineIndex = 0
        THEN [buffer |-> buf, messages |-> messages]
        ELSE LET line == trim(SubSeq(buf, 1, newlineIndex - 1))
                 rest == SubSeq(buf, newlineIndex + 1, Len(buf))
             IN  IF Len(line) > 0 /\ jsonParses(line)
                 THEN parseLoop(rest, Append(messages, line))
                 ELSE parseLoop(rest, messages)

parse(buf, data) == parseLoop(buf \o toString(data), <<>>)

RECURSIVE ByteSeqs(_)
ByteSeqs(n) ==
    IF n = 0 THEN {<<>>}
    ELSE LET shorter == ByteSeqs(n - 1)
         IN  shorter \cup {Append(q, b) : q \in {x \in shorter : Len(x) = n - 1}, b \in Bytes}

\* a chunk of n bytes arrives and is parsed
Feed(n) ==
    /\ n \in 1..Len(stream.rest)
    /\ LET r == parse(buffer, SubSeq(stream.rest, 1, n))
       IN  /\ buffer' = r.buffer
           /\ delivered' = delivered \o r.messages
    /\ stream' = [stream EXCEPT !.rest = SubSeq(@, n + 1, Len(@))]
    /\ UNCHANGED <<connectionId, miners, conn, socks, timers, feeShareCounter, now,
                   submitSeq, redirected, heard, last, server, emitted, trace>>
    /\ UNCHANGED fixedVars
    /\ UNCHANGED lifeVars
    /\ UNCHANGED calcVars

InitCodec ==
    /\ InitProxy([enabled : {FALSE}, percent : {50}],
                 [conns |-> 0, socks |-> 0, shares |-> 0, inflight |-> 0,
                  draws |-> {0}, trace |-> FALSE])
    /\ pools = OnePool
    /\ \E all \in ByteSeqs(MaxStreamLen) : stream = [all |-> all, rest |-> all]
    /\ buffer = <<>>
    /\ delivered = <<>>
    /\ shares = <<>>

NextCodec == \E n \in 1..MaxStreamLen : Feed(n)

SpecCodec == InitCodec /\ [][NextCodec]_vars

\* the bytes are well-formed UTF-8
RECURSIVE validUtf8(_)
validUtf8(data) ==
    IF data = <<>> THEN TRUE
    ELSE IF Head(data) = "L"
         THEN Len(data) >= 2 /\ data[2] = "C" /\ validUtf8(Tail(Tail(data)))
         ELSE Head(data) # "C" /\ validUtf8(Tail(data))

RECURSIVE linesOf(_)
\* the newline-terminated lines of a decoded text, untrimmed
linesOf(str) ==
    LET i == indexOfNewline(str)
    IN  IF i = 0 THEN <<>>
        ELSE <<SubSeq(str, 1, i - 1)>> \o linesOf(SubSeq(str, i + 1, Len(str)))

\* a stream of valid lines: well-formed text whose complete lines all decode
validLines(data) ==
    /\ validUtf8(data)
    /\ \A i \in 1..Len(linesOf(toString(data))) :
          LET line == trim(linesOf(toString(data))[i])
          IN  Len(line) > 0 /\ jsonParses(line)

\* C10: once all chunks of a stream of valid lines have been fed, the
\* messages returned by the calls, concatenated, and the buffer are those of
\* one call on the whole stream.
C10_ChunkingPreservesMessages ==
    (stream.rest = <<>> /\ validLines(stream.all))
        => /\ delivered = parse(<<>>, stream.all).messages
           /\ buffer = parse(<<>>, stream.all).buffer

\* C19: the buffer of the parser never holds more than a fixed maximum
\* line length, whatever the stream; the maximum is taken one below the
\* length of the longest stream of the run.
LineCap == MaxStreamLen - 1

C19_BufferBounded == Len(buffer) <= LineCap

\* ------------------------------------------------------------------------
\* SpecLines: one session whose miner socket delivers a stream of ASCII
\* lines, some of which are not JSON, in chunks cut anywhere
\* ------------------------------------------------------------------------
LineBytes == {"a", "SP", "NL", "!"}

RECURSIVE SeqsOver(_, _)
SeqsOver(B, n) ==
    IF n = 0 THEN {<<>>}
    ELSE LET shorter == SeqsOver(B, n - 1)
         IN  shorter \cup {Append(q, b) : q \in {x \in shorter : Len(x) = n - 1}, b \in B}

\* the message a decoded line stands for: a request that is answered at
\* once, whose id tells the lines apart
jsonOf(line) == Request(Len(line), "mining.extranonce.subscribe", <<>>)

RECURSIVE handleMinerMessages(_, _, _, _)
\* the for loop of handleMinerData over the messages parse returned
handleMinerMessages(w, lines, t, u) ==
    IF lines = <<>> THEN w
    ELSE handleMinerMessages(handleMinerMessage(w, jsonOf(Head(lines)), t, u), Tail(lines), t, u)

\* handleMinerData for a chunk of bytes
handleMinerChunk(w, lines, t, u) ==
    IF ~w.has THEN w
    ELSE handleMinerMessages([w EXCEPT !.c.lastActivity = t], lines, t, u)

\* socket.on('data') of the miner socket: the next n bytes of the stream
MinerChunk(s, n) ==
    /\ s \in miners
    /\ n \in 1..Len(stream.rest)
    /\ LET r == parse(buffer, SubSeq(stream.rest, 1, n))
       IN  /\ \E u \in env.draws :
                  Commit(s, 0, handleMinerChunk(World(s), r.messages, now, u), "minerChunk", NoMsg)
           /\ buffer' = r.buffer
           /\ delivered' = delivered \o r.messages
    /\ stream' = [stream EXCEPT !.rest = SubSeq(@, n + 1, Len(@))]
    /\ UNCHANGED <<connectionId, now, server>>
    /\ UNCHANGED fixedVars
    /\ UNCHANGED lifeVars
    /\ UNCHANGED calcVars

InitLines ==
    /\ InitProxy([enabled : {FALSE}, percent : {50}],
                 [conns |-> 1, socks |-> 1, shares |-> 0, inflight |-> 0,
                  draws |-> {0}, trace |-> FALSE])
    /\ pools = OnePool
    /\ \E all \in SeqsOver(LineBytes, MaxLineStreamLen) : stream = [all |-> all, rest |-> all]
    /\ buffer = <<>>
    /\ delivered = <<>>
    /\ shares = <<>>

NextLines ==
    \/ Accept
    \/ \E s \in Sessions, n \in 1..MaxLineStreamLen : MinerChunk(s, n)

SpecLines == InitLines /\ [][NextLines]_vars

\* a complete line that the parser hands on: not blank, and valid JSON
wellFormed(line) == Len(trim(line)) > 0 /\ jsonParses(trim(line))

RECURSIVE trimAll(_)
trimAll(ls) == IF ls = <<>> THEN <<>> ELSE <<trim(Head(ls))>> \o trimAll(Tail(ls))

\* the well-formed complete lines of a text, in order, trimmed
goodLines(str) == trimAll(SelectSeq(linesOf(str), wellFormed))

RECURSIVE answersTo(_)
answersTo(ls) ==
    IF ls = <<>> THEN <<>>
    ELSE <<createResponse(Len(Head(ls)), "true")>> \o answersTo(Tail(ls))

\* C11: whatever the chunking, the messages handed on so far are the
\* well-formed complete lines received so far, in order: a line that fails
\* to decode removes nothing but itself; the handler of the chunk answers
\* each well-formed line completed by the chunk, in order, and the session
\* stays registered, its miner socket open, with no disconnect emitted.
C11_BadLineOnlyDropsItself ==
    [][last'.op = "minerChunk"
          => LET s == last'.s
                 received == SubSeq(stream.all, 1, Len(stream.all) - Len(stream'.rest))
                 chunk == SubSeq(stream.rest, 1, Len(stream.rest) - Len(stream'.rest))
             IN  /\ delivered' = goodLines(toString(received))
                 /\ last'.toMiner = answersTo(goodLines(buffer \o toString(chunk)))
                 /\ s \in miners'
                 /\ ~conn'[s].socketDestroyed
                 /\ last'.disc = {}]_vars

\* a whole stream made of a well-formed line, a line that fails to decode
\* and a second well-formed line has been received
C11_Witness ==
    /\ last.op = "minerChunk"
    /\ stream.rest = <<>>
    /\ Len(linesOf(toString(stream.all))) = 3
    /\ wellFormed(linesOf(toString(stream.all))[1])
    /\ ~jsonParses(linesOf(toString(stream.all))[2])
    /\ wellFormed(linesOf(toString(stream.all))[3])
    /\ Len(delivered) = 2

\* ------------------------------------------------------------------------
\* SpecPools: one session that subscribes or authorizes, with an Aleo or
\* another address, for every list of up to MaxPools descriptors and every
\* draw
\* ------------------------------------------------------------------------
Descriptors == [weight : 0..MaxWeight, enabled : BOOLEAN, aleo : BOOLEAN]

RECURSIVE PoolLists(_)
PoolLists(n) ==
    IF n = 0 THEN {<<>>}
    ELSE LET shorter == PoolLists(n - 1)
         IN  shorter \cup {Append(q, d) : q \in {x \in shorter : Len(x) = n - 1},
                                           d \in Descriptors}

Draws == 0..(RandomDen - 1)

PoolTraffic ==
    {Request(1, "mining.subscribe", <<"miner/1">>),
     Request(1, "mining.authorize", <<"a.w", "x">>),
     Request(1, "mining.authorize", <<"aleo1.w", "x">>)}

InitPools ==
    /\ InitProxy([enabled : {FALSE}, percent : {50}],
                 [conns |-> 1, socks |-> 1, shares |-> 0, inflight |-> 1, draws |-> Draws, trace |-> FALSE])
    /\ pools \in PoolLists(MaxPools)
    /\ InitCodecIdle

NextPools ==
    \/ Accept
    \/ \E s \in Sessions, m \in PoolTraffic : MinerData(s, m)

SpecPools == InitPools /\ [][NextPools]_vars

\* the descriptors a selection considers: the enabled ones, restricted to
\* the Aleo ones for an Aleo session when there is one
considered(isAleo) ==
    LET enabled == {i \in 1..Len(pools) : pools[i].enabled}
        aleo == {i \in enabled : pools[i].aleo}
    IN  IF isAleo /\ aleo # {} THEN aleo ELSE enabled

RECURSIVE weightUpTo(_, _)
\* the summed weight of the descriptors of C up to position k of the list
weightUpTo(C, k) ==
    IF k = 0 THEN 0
    ELSE (IF k \in C THEN pools[k].weight ELSE 0) + weightUpTo(C, k - 1)

least(S) == CHOOSE x \in S : \A y \in S : x <= y

\* the reference selection for the draw r = u / RandomDen * totalWeight
referencePick(C, u) ==
    IF C = {} THEN NoPool
    ELSE IF weightUpTo(C, Len(pools)) = 0 THEN least(C)
    ELSE least({k \in C : u * weightUpTo(C, Len(pools)) <= RandomDen * weightUpTo(C, k)})

\* C12: the pool a handler selects for a dial is, for every descriptor list
\* and every draw, the first considered descriptor at which the draw minus
\* the weights so far is <= 0, the first considered one when the total
\* weight is 0, and none when no descriptor is enabled; an Aleo session with
\* an enabled Aleo descriptor gets the same pick over the Aleo descriptors.
C12_SelectionMatchesReference ==
    \A s \in Sessions :
        (last.s = s /\ last.draw # NullId)
            => /\ last.pool = referencePick(considered(conn[s].isAleo), last.draw)
               /\ last.pool # NoPool
                     => \E k \in SockIds :
                            socks[s][k].st = "dialing" /\ socks[s][k].pool = last.pool

\* C38: for every descriptor list and every draw, a descriptor of weight 0
\* is selected for a dial only when no considered descriptor has a positive
\* weight.
C38_ZeroWeightNeverPreferred ==
    \A s \in Sessions :
        (last.s = s /\ last.draw # NullId /\ last.pool # NoPool
                /\ pools[last.pool].weight = 0)
            => \A i \in considered(conn[s].isAleo) : pools[i].weight = 0

\* an Aleo session was sent to the second of two Aleo descriptors of
\* weights 2 and 1, and its dial is in flight
C12_Witness ==
    \E s \in Sessions :
        /\ last.s = s
        /\ conn[s].isAleo
        /\ considered(TRUE) = {1, 2}
        /\ pools[1].aleo /\ pools[1].weight = 2 /\ pools[2].weight = 1
        /\ last.pool = 2
        /\ \E k \in SockIds : socks[s][k].st = "dialing" /\ socks[s][k].pool = 2

\* ------------------------------------------------------------------------
\* SpecDial: one session that may have two upstream dials in flight, with
\* dials that fail, and with or without an enabled pool
\* ------------------------------------------------------------------------
DialPools == {OnePool, <<[weight |-> 1, enabled |-> FALSE, aleo |-> FALSE]>>}

DialTraffic ==
    {Request(1, "mining.subscribe", <<"miner/1">>),
     Request(2, "mining.authorize", <<"a.w", "x">>)}

InitDial ==
    /\ InitProxy([enabled : {FALSE}, percent : {50}],
                 [conns |-> 1, socks |-> 2, shares |-> 0, inflight |-> MaxDialInFlight,
                  draws |-> {0}, trace |-> FALSE])
    /\ pools \in DialPools
    /\ InitCodecIdle

NextDial ==
    \/ Accept
    \/ \E s \in Sessions, m \in DialTraffic : MinerData(s, m)
    \/ \E s \in Sessions : MinerGone(s)
    \/ \E s \in Sessions, k \in SockIds : PoolConnect(s, k)
    \/ \E s \in Sessions, k \in SockIds : PoolError(s, k)
    \/ \E s \in Sessions, k \in SockIds : PoolClose(s, k)
    \/ \E s \in Sessions : ReconnectTimer(s)

SpecDial == InitDial /\ [][NextDial]_vars

\* the dial started for a subscribe or an authorize has just failed: its
\* socket reported an error, or no pool could be selected
DialFailed(s) ==
    /\ last'.s = s
    /\ \/ last'.op = "poolError" /\ last'.cont \in {"subscribe", "authorize"}
       \/ last'.op = "minerData" /\ last'.draw # NullId /\ last'.pool = NoPool

\* C13: when the dial started for a subscribe or an authorize of a
\* registered session fails, the miner is sent one error response with the
\* id of that request, nothing is written upstream, the request is not
\* recorded as pending, and the session stays registered with its miner
\* socket open and no disconnect emitted.
C13_DialFailureIsReported ==
    [][\A s \in miners :
          DialFailed(s)
              => /\ last'.toMiner = <<createError(last'.msg.id, "E20")>>
                 /\ last'.msg.method \in {"mining.subscribe", "mining.authorize"}
                 /\ last'.toPool = <<>>
                 /\ conn'[s].pendingRequests = conn[s].pendingRequests
                 /\ s \in miners'
                 /\ ~conn'[s].socketDestroyed
                 /\ last'.disc = {}]_vars

\* the dial started for the authorize with id 2 failed with a socket error
C13_Witness ==
    \E s \in miners :
        /\ last.op = "poolError"
        /\ last.s = s
        /\ last.cont = "authorize"
        /\ last.toMiner = <<createError(2, "E20")>>

\* C24: a pending-table entry is created only in a step that writes the
\* request of that id upstream, for a session that is registered; it is
\* removed only in the step that handles an upstream response with that id;
\* and a session that is no longer registered gets no new entry.
C24_PendingTracksRelayed ==
    [][\A s \in Sessions : \A i \in MsgIds :
          /\ (conn'[s].pendingRequests[i] # NoMsg
                  /\ conn'[s].pendingRequests[i] # conn[s].pendingRequests[i])
                => /\ last'.s = s
                   /\ \E j \in 1..Len(last'.toPool) : last'.toPool[j].id = i
                   /\ s \in miners'
          /\ (conn'[s].pendingRequests[i] = NoMsg /\ conn[s].pendingRequests[i] # NoMsg)
                => /\ last'.s = s
                   /\ last'.op = "poolResponse"
                   /\ last'.msg.id = i]_vars

\* C28: no step starts an upstream dial for a session that is not in the
\* registry; in particular a reconnect timer that fires after its session
\* was removed dials nothing and selects no pool.
C28_NoDialAfterRemoval ==
    [][\A s \in Sessions :
          s \notin miners
              => /\ \A k \in SockIds :
                        socks'[s][k].st = "dialing" => socks[s][k].st = "dialing"
                 /\ last'.s = s => last'.draw = NullId]_vars

\* the reconnect timer of a session fired after the session was removed
C28_Witness ==
    \E s \in Sessions :
        /\ last.op = "reconnectTimer"
        /\ last.s = s
        /\ s <= connectionId
        /\ s \notin miners
        /\ emitted[s] # <<>>
        /\ \A k \in SockIds : socks[s][k].st # "dialing"

\* the upstream sockets of a session that are connecting or connected
Upstreams(s) == {k \in SockIds : socks[s][k].st \in {"dialing", "open"}}

\* C32: in every state a session has at most one upstream connection,
\* connecting or connected.
C32_OneUpstreamPerSession ==
    \A s \in Sessions : Cardinality(Upstreams(s)) <= 1

\* C33: in every state a session has at most one reconnect timer pending.
C33_OneReconnectPending ==
    \A s \in Sessions : timers[s] <= 1

\* a session that was registered and has been removed from the registry
Removed(s) == s <= connectionId /\ s \notin miners

\* C34: once a session is removed, none of its upstream sockets is or becomes
\* connected, none of its fields changes, and nothing is written upstream for
\* it.
C34_NothingAfterRemoval ==
    [][\A s \in Sessions :
          Removed(s)
              => /\ \A k \in SockIds : socks'[s][k].st # "open"
                 /\ conn'[s] = conn[s]
                 /\ last'.s = s => last'.toPool = <<>>]_vars

\* ------------------------------------------------------------------------
\* SpecAuth: one session that authorizes with credentials of several
\* shapes, before and after its upstream is connected
\* ------------------------------------------------------------------------
CredentialShapes == {<<"a.w", "x">>, <<"a">>, <<"a.w.x", "p">>, <<"b.w", "">>}

AuthTraffic ==
    {Request(1, "mining.subscribe", <<"miner/1">>)}
    \cup {Request(2, "mining.authorize", p) : p \in CredentialShapes}

InitAuth ==
    /\ InitProxy([enabled : {FALSE}, percent : {50}],
                 [conns |-> 1, socks |-> 1, shares |-> 0, inflight |-> MaxInFlight,
                  draws |-> {0}, trace |-> FALSE])
    /\ pools = OnePool
    /\ InitCodecIdle

NextAuth ==
    \/ Accept
    \/ \E s \in Sessions, m \in AuthTraffic : MinerData(s, m)
    \/ \E s \in Sessions, k \in SockIds : PoolConnect(s, k)
    \/ \E s \in Sessions, k \in SockIds : PoolClose(s, k)
    \/ \E s \in Sessions : ReconnectTimer(s)
    \/ \E s \in Sessions, k \in SockIds :
          \E m \in UNION {PoolAnswers(r) : r \in PoolRequests} : PoolResponse(s, k, m)

SpecAuth == InitAuth /\ [][NextAuth]_vars

\* the authorize requests written upstream by the handler that ran last
AuthorizesRelayed == SelectSeq(last.toPool, LAMBDA m : m.method = "mining.authorize")

\* C14 as stated: a relayed authorize carries the id and exactly the
\* parameters of the miner's authorize request.
C14_AuthorizeRelayedVerbatim ==
    \A i \in 1..Len(AuthorizesRelayed) :
        /\ AuthorizesRelayed[i].id = last.msg.id
        /\ AuthorizesRelayed[i].params = last.msg.params

\* the login and the password the miner's authorize stands for: a login
\* without a worker means the worker "default", no password means "x"
loginOf(params) == IF params[1] = "a" THEN "a.default" ELSE params[1]

passwordOf(params) == IF Len(params) >= 2 /\ params[2] # "" THEN params[2] ELSE "x"

\* C14 (amended): a relayed authorize carries the id of the miner's
\* authorize request, the login the miner supplied (with the worker
\* "default" when it supplied none) and the password it supplied ("x" when
\* it supplied none), and never the fee worker.
C14_AuthorizeRelaysMinerCredentials ==
    \A i \in 1..Len(AuthorizesRelayed) :
        /\ last.msg.method = "mining.authorize"
        /\ AuthorizesRelayed[i].id = last.msg.id
        /\ AuthorizesRelayed[i].params = <<loginOf(last.msg.params), passwordOf(last.msg.params)>>
        /\ AuthorizesRelayed[i].params[1] # FeeWorker

\* an authorize that names a worker and a password was relayed once the
\* dial it waited for completed
C14_Witness ==
    /\ last.op = "poolConnect"
    /\ last.msg.params = <<"a.w.x", "p">>
    /\ Len(AuthorizesRelayed) = 1

\* ------------------------------------------------------------------------
\* SpecTeardown: two sessions with or without an upstream, and every way a
\* session ends: miner socket error, close and timeout, idle sweep, stop
\* ------------------------------------------------------------------------
TeardownTraffic == {Request(1, "mining.authorize", <<"a.w", "x">>)}

InitTeardown ==
    /\ InitProxy([enabled : {FALSE}, percent : {50}],
                 [conns |-> 2, socks |-> 1, shares |-> 0, inflight |-> 1, draws |-> {0}, trace |-> FALSE])
    /\ pools = OnePool
    /\ InitCodecIdle

NextTeardown ==
    \/ Accept
    \/ \E s \in Sessions, m \in TeardownTraffic : MinerData(s, m)
    \/ \E s \in Sessions, ev \in {"error", "close", "timeout"} : MinerEvent(s, ev)
    \/ \E s \in Sessions, k \in SockIds : PoolConnect(s, k)
    \/ Sweep
    \/ Stop
    \/ Tick

SpecTeardown == InitTeardown /\ [][NextTeardown]_vars

\* the sessions the handler of the step asks disconnectMiner to end
Targets ==
    CASE last'.op \in {"minerError", "minerClose", "minerTimeout"} -> {last'.s}
      [] last'.op = "sweep" -> {s \in miners : now - heard[s] > 600000}
      [] last'.op = "stop" -> miners
      [] OTHER -> {}

\* C15: a miner-socket error, close or timeout, an idle sweep or a stop
\* that hits a registered session destroys its miner socket and its current
\* upstream socket, removes it from the registry and emits its disconnect
\* event with a reason; one that hits a session already removed emits
\* nothing, so that a session has one event however many triggers fire.
C15_TeardownOnce ==
    [][/\ \A s \in Targets \cap miners :
             /\ s \notin miners'
             /\ conn'[s].socketDestroyed
             /\ conn[s].poolSocket # 0 => socks'[s][conn[s].poolSocket].st \in {"closing", "free"}
             /\ Len(emitted'[s]) = 1
             /\ emitted'[s][1] # ""
             /\ s \in last'.disc
       /\ \A s \in Targets \ miners : emitted'[s] = emitted[s] /\ s \notin last'.disc
       /\ \A s \in Sessions : Len(emitted'[s]) <= 1]_vars

\* a session with a live upstream was swept, and the close event of its
\* destroyed miner socket then found it already removed
C15_Witness ==
    \E s \in Sessions :
        /\ last.op = "minerClose"
        /\ last.s = s
        /\ emitted[s] = <<"inactive">>
        /\ conn[s].socketClosed
        /\ conn[s].poolSocket # 0

\* ------------------------------------------------------------------------
\* SpecShutdown: two sessions, the clock, the idle sweep and the shutdown
\* of the three services
\* ------------------------------------------------------------------------
InitShutdown ==
    /\ InitProxy([enabled : {FALSE}, percent : {50}],
                 [conns |-> 2, socks |-> 1, shares |-> 0, inflight |-> 1, draws |-> {0},
                  trace |-> FALSE])
    /\ pools = OnePool
    /\ InitCodecIdle

NextShutdown ==
    \/ Accept
    \/ \E s \in Sessions, m \in TeardownTraffic : MinerData(s, m)
    \/ \E s \in Sessions, k \in SockIds : PoolConnect(s, k)
    \/ Sweep
    \/ Tick
    \/ CheckerStop
    \/ Stop
    \/ StatsStop

SpecShutdown == InitShutdown /\ [][NextShutdown]_vars

\* the shutdown is over: the three services have been stopped
ShutdownDone == server = "closed" /\ periodic.stopped = {"checker", "stats"}

\* C29: once the shutdown is over, no periodic timer armed at start is
\* still armed.
C29_NoTimerArmedAfterStop == ShutdownDone => periodic.armed = {}

\* ------------------------------------------------------------------------
\* SpecReconnect: one session whose upstream is lost and whose reconnect
\* dials fail, with the fairness of the timers, of the close events and of
\* a pool that is reachable.  A dial fails only while the two timers its
\* error and its close arm stay within MaxTimers.
\* ------------------------------------------------------------------------
InitReconnect ==
    /\ InitProxy([enabled : {FALSE}, percent : {50}],
                 [conns |-> 1, socks |-> 1, shares |-> 0, inflight |-> MaxInFlight,
                  draws |-> {0}, trace |-> FALSE])
    /\ pools = OnePool
    /\ InitCodecIdle

\* the dial of a session fails: the error event of a connecting socket
DialFails(s, k) ==
    /\ socks[s][k].st = "dialing"
    /\ timers[s] + 2 <= MaxTimers
    /\ PoolError(s, k)

\* the pool ends an established connection
PoolEnds(s, k) ==
    /\ socks[s][k].st = "open"
    /\ PoolClose(s, k)

\* the close event of a socket that failed or was destroyed
SocketClosed(s, k) ==
    /\ socks[s][k].st = "closing"
    /\ PoolClose(s, k)

NextReconnect ==
    \/ Accept
    \/ \E s \in Sessions, m \in DialTraffic : MinerData(s, m)
    \/ \E s \in Sessions : MinerGone(s)
    \/ \E s \in Sessions, k \in SockIds : PoolConnect(s, k)
    \/ \E s \in Sessions, k \in SockIds : DialFails(s, k)
    \/ \E s \in Sessions, k \in SockIds : PoolEnds(s, k)
    \/ \E s \in Sessions, k \in SockIds : SocketClosed(s, k)
    \/ \E s \in Sessions : ReconnectTimer(s)

\* a pending timeout fires, a destroyed socket emits its close event, and
\* a dial to a reachable pool completes
FairReconnect ==
    /\ \A s \in Sessions : WF_vars(ReconnectTimer(s))
    /\ \A s \in Sessions, k \in SockIds : WF_vars(SocketClosed(s, k))
    /\ \A s \in Sessions, k \in SockIds : WF_vars(PoolConnect(s, k))

SpecReconnect == InitReconnect /\ [][NextReconnect]_vars /\ FairReconnect

\* the handler of an upstream error or close has just run for the session,
\* which is registered
UpstreamLost(s) == s \in miners /\ last.s = s /\ last.op \in {"poolError", "poolClose"}

OrderTraffic ==
    {Request(1, "mining.subscribe", <<"miner/1">>),
     Request(2, "mining.authorize", <<"a.w", "x">>),
     Request(1, "mining.get_transactions", <<>>)}

InitOrder ==
    /\ InitProxy([enabled : {FALSE}, percent : {50}],
                 [conns |-> 1, socks |-> 2, shares |-> 0, inflight |-> MaxDialInFlight,
                  draws |-> {0}, trace |-> TRUE])
    /\ pools = OnePool
    /\ InitCodecIdle

NextOrder ==
    \/ Accept
    \/ \E s \in Sessions, m \in OrderTraffic : MinerData(s, m)
    \/ \E s \in Sessions, k \in SockIds : PoolConnect(s, k)
    \/ \E s \in Sessions, k \in SockIds : PoolError(s, k)
    \/ \E s \in Sessions, k \in SockIds : PoolClose(s, k)

SpecOrder == InitOrder /\ [][NextOrder]_vars

\* where a request stands in a log in which it occurs
position(log, key) == CHOOSE i \in 1..Len(log) : log[i] = key

\* C16: the requests relayed upstream for a session appear in the order in
\* which the miner sent them.
C16_RelayedInReceiptOrder ==
    \A s \in Sessions :
        \A i, j \in 1..Len(trace[s].relayed) :
            i < j => position(trace[s].sent, trace[s].relayed[i])
                        < position(trace[s].sent, trace[s].relayed[j])

\* ------------------------------------------------------------------------
\* SpecCoin: one session that authorizes, possibly more than once, with an
\* Aleo or another address, against one Aleo pool and one other pool
\* ------------------------------------------------------------------------
CoinPools ==
    <<[weight |-> 1, enabled |-> TRUE, aleo |-> FALSE],
      [weight |-> 1, enabled |-> TRUE, aleo |-> TRUE]>>

\* the same list with its Aleo descriptor disabled
CoinPoolsAleoOff ==
    <<[weight |-> 1, enabled |-> TRUE, aleo |-> FALSE],
      [weight |-> 1, enabled |-> FALSE, aleo |-> TRUE]>>

CoinTraffic ==
    {Request(1, "mining.subscribe", <<"miner/1">>),
     Request(1, "mining.authorize", <<"a.w", "x">>),
     Request(1, "mining.authorize", <<"aleo1.w", "x">>),
     Request(1, "mining.authorize", <<>>)}

InitCoin ==
    /\ InitProxy([enabled : {FALSE}, percent : {50}],
                 [conns |-> 1, socks |-> 1, shares |-> 0, inflight |-> MaxInFlight,
                  draws |-> {0, RandomDen - 1}, trace |-> FALSE])
    /\ pools \in {CoinPools, CoinPoolsAleoOff}
    /\ InitCodecIdle

NextCoin ==
    \/ Accept
    \/ \E s \in Sessions, m \in CoinTraffic : MinerData(s, m)
    \/ \E s \in Sessions, k \in SockIds : PoolConnect(s, k)
    \/ \E s \in Sessions, k \in SockIds : PoolClose(s, k)
    \/ \E s \in Sessions, k \in SockIds :
          \E m \in UNION {PoolAnswers(r) : r \in PoolRequests} : PoolResponse(s, k, m)
    \/ \E s \in Sessions : ReconnectTimer(s)

SpecCoin == InitCoin /\ [][NextCoin]_vars

\* C17: once a session has had an authorize accepted for parsing, which
\* classifies its coin, no step changes the classification.
C17_ClassificationIsPermanent ==
    [][\A s \in Sessions :
          conn[s].minerInfo.set => conn'[s].isAleo = conn[s].isAleo]_vars

\* C21: every dial made for a session that is classified as Aleo, by a
\* miner request or by a reconnect timer, goes to an enabled Aleo descriptor
\* when there is one, and otherwise to the default weighted pick over all
\* enabled descriptors.
C21_AleoDialsUseAleoPools ==
    \A s \in Sessions :
        (last.s = s /\ last.draw # NullId /\ conn[s].isAleo)
            => LET enabled == {i \in 1..Len(pools) : pools[i].enabled}
                   aleo == {i \in enabled : pools[i].aleo}
               IN  /\ aleo # {} => last.pool \in aleo
                   /\ aleo = {} => last.pool = referencePick(enabled, last.draw)
                   /\ last.pool # NoPool
                         => \E k \in SockIds :
                                socks[s][k].st = "dialing" /\ socks[s][k].pool = last.pool

\* a reconnect of an Aleo session dialled the Aleo descriptor of a list
\* whose default pick for the same draw is the other descriptor
\* C39: in every state, a session classified as Aleo whose upstream is live,
\* while an enabled Aleo descriptor is configured, is connected to an Aleo
\* descriptor.
C39_AleoSessionOnAleoPool ==
    \A s \in Sessions :
        (conn[s].isAleo /\ LiveUpstream(s)
                /\ \E i \in 1..Len(pools) : pools[i].enabled /\ pools[i].aleo)
            => pools[socks[s][conn[s].poolSocket].pool].aleo

C21_Witness ==
    \E s \in Sessions :
        /\ last.op = "reconnectTimer"
        /\ last.s = s
        /\ conn[s].isAleo
        /\ pools = CoinPools
        /\ last.pool = 2
        /\ getActivePool(pools, last.draw) = 1
        /\ \E k \in SockIds : socks[s][k].st = "dialing" /\ socks[s][k].pool = 2

\* ------------------------------------------------------------------------
\* SpecRelay: one session with an upstream whose miner sends requests of
\* other methods than subscribe, authorize and submit, with the ids 0, 1
\* and 2
\* ------------------------------------------------------------------------
RelayIds == {0, 1, 2}

OtherMethods == {"mining.get_transactions", "mining.extranonce.subscribe"}

RelayTraffic ==
    {Request(1, "mining.subscribe", <<"miner/1">>)}
    \cup {Request(i, x, <<>>) : i \in RelayIds, x \in OtherMethods}

InitRelay ==
    /\ InitProxy([enabled : {FALSE}, percent : {50}],
                 [conns |-> 1, socks |-> 1, shares |-> 0, inflight |-> MaxDialInFlight,
                  draws |-> {0}, trace |-> FALSE])
    /\ pools = OnePool
    /\ InitCodecIdle

NextRelay ==
    \/ Accept
    \/ \E s \in Sessions, m \in RelayTraffic : MinerData(s, m)
    \/ \E s \in Sessions, k \in SockIds : PoolConnect(s, k)
    \/ \E s \in Sessions, k \in SockIds :
          \E m \in UNION {PoolAnswers(r) : r \in PoolRequests} : PoolResponse(s, k, m)
    \/ \E s \in Sessions, k \in SockIds : PoolClose(s, k)
    \/ \E s \in Sessions : ReconnectTimer(s)

SpecRelay == InitRelay /\ [][NextRelay]_vars

\* the methods handleMinerMessage has a case of its own for
OwnCase ==
    {"mining.subscribe", "mining.authorize", "mining.submit", "mining.extranonce.subscribe"}

\* C23: a request with an id and a method other than subscribe, authorize
\* and submit, handled for a session with a live upstream, is written
\* upstream as it is and recorded in the pending table under its id,
\* whatever the id.  The extension request that the proxy answers itself is
\* left aside: the property is stated for the default case of the switch.
C23_OtherRequestsRelayed ==
    \A s \in Sessions :
        (/\ last.op = "minerData"
         /\ last.s = s
         /\ last.msg.id # NullId
         /\ last.msg.method \notin OwnCase
         /\ LiveUpstream(s))
            => /\ last.toPool = <<last.msg>>
               /\ last.msg.id \in DOMAIN conn[s].pendingRequests
               /\ conn[s].pendingRequests[last.msg.id] = last.msg

\* ------------------------------------------------------------------------
\* SpecNotify: one session, whose subscribe and authorize may each start a
\* dial, and a pool that sends notifications of every kind on any open
\* connection
\* ------------------------------------------------------------------------
TargetValues == {[type |-> "number", value |-> 3], [type |-> "number", value |-> 0],
             [type |-> "string", value |-> 0]}

Notifications ==
    PoolNotifications
    \cup {Msg(NullId, "mining.set_target", <<x>>, "", "") : x \in TargetValues}
    \cup {Msg(NullId, "mining.set_target", <<>>, "", ""),
          Msg(NullId, "client.show_message", <<>>, "", "")}

InitNotify ==
    /\ InitProxy([enabled : {FALSE}, percent : {50}],
                 [conns |-> 1, socks |-> 2, shares |-> 0, inflight |-> MaxDialInFlight,
                  draws |-> {0}, trace |-> FALSE])
    /\ pools = OnePool
    /\ InitCodecIdle

NextNotify ==
    \/ Accept
    \/ \E s \in Sessions, m \in DialTraffic : MinerData(s, m)
    \/ \E s \in Sessions, k \in SockIds : PoolConnect(s, k)
    \/ \E s \in Sessions, k \in SockIds : PoolClose(s, k)
    \/ \E s \in Sessions, k \in SockIds, m \in Notifications : PoolNotify(s, k, m)

SpecNotify == InitNotify /\ [][NextNotify]_vars

\* a notification that announces a difficulty, and the value it announces
announces(m) ==
    \/ m.method = "mining.set_difficulty"
    \/ m.method = "mining.set_target" /\ Len(m.params) > 0 /\ m.params[1].type = "number"

announced(m) ==
    IF m.method = "mining.set_difficulty" THEN m.params[1] ELSE m.params[1].value

\* C25: a notification that a connection of a registered session delivers
\* is written to the miner once, as it is; one that announces a difficulty
\* (set_difficulty, or set_target with a number) sets the difficulty of the
\* session to the announced value and leaves every other field alone.
C25_NotificationsRelayedOnce ==
    [][\A s \in miners :
          (last'.op = "poolNotify" /\ last'.s = s)
              => /\ last'.toMiner = <<last'.msg>>
                 /\ last'.toPool = <<>>
                 /\ announces(last'.msg)
                       => conn'[s] = [conn[s] EXCEPT !.difficulty = announced(last'.msg)]]_vars

\* ------------------------------------------------------------------------
\* The hashrate calculator (HashrateCalculator).  Timestamps are in
\* milliseconds.  A rate is kept as the pair of the summed difficulty and
\* the time span in milliseconds it is divided by, [total, spanMs], standing
\* for total / (spanMs / 1000); the rate 0 of an empty window is [0, 1000].
\* The calls of handlePoolMessage to addShare are the records of
\* last.shares; here the calculator is driven by arbitrary calls.
\* ------------------------------------------------------------------------
HashClock == {0, 500, 1500, 60000, 60500, 900000, 900500, 86400000, 86400500}

HashDifficulties == {1, 3}

Windows == {REALTIME_WINDOW, AVG_15MIN_WINDOW, AVG_24H_WINDOW}

ZeroRate == [total |-> 0, spanMs |-> 1000]

RECURSIVE sumDifficulty(_)
sumDifficulty(recs) ==
    IF recs = <<>> THEN 0 ELSE Head(recs).difficulty + sumDifficulty(Tail(recs))

RECURSIVE minTimestamp(_)
minTimestamp(recs) ==
    IF Len(recs) = 1 THEN recs[1].timestamp
    ELSE LET m == minTimestamp(Tail(recs))
         IN  IF Head(recs).timestamp < m THEN Head(recs).timestamp ELSE m

\* variant: the window is not restricted to accepted records
calculateHashrate_CountsRejected(recs, t, windowSeconds) ==
    LET cutoff == t - windowSeconds * 1000
        inWindow(r) == r.timestamp > cutoff
        windowShares == SelectSeq(recs, inWindow)
        span == t - minTimestamp(windowShares)
    IN  IF windowShares = <<>> THEN ZeroRate
        ELSE [total |-> sumDifficulty(windowShares),
              spanMs |-> IF span > 1000 THEN span ELSE 1000]

calculateHashrate(recs, t, windowSeconds) ==
    LET cutoff == t - windowSeconds * 1000
        inWindow(r) == r.timestamp > cutoff /\ r.accepted
        windowShares == SelectSeq(recs, inWindow)
        span == t - minTimestamp(windowShares)
    IN  IF windowShares = <<>> THEN ZeroRate
        ELSE [total |-> sumDifficulty(windowShares),
              spanMs |-> IF span > 1000 THEN span ELSE 1000]

getShareStats(recs) ==
    LET isAccepted(r) == r.accepted
        isRejected(r) == ~r.accepted
    IN  [total |-> Len(recs),
         accepted |-> Len(SelectSeq(recs, isAccepted)),
         rejected |-> Len(SelectSeq(recs, isRejected))]

\* addShare at time t
addShare(recs, t, difficulty, accepted) ==
    LET cutoff == t - AVG_24H_WINDOW * 1000
        kept(r) == r.timestamp > cutoff
    IN  SelectSeq(Append(recs, [timestamp |-> t, difficulty |-> difficulty,
                                accepted |-> accepted]),
                  kept)

AddShare(difficulty, accepted) ==
    /\ Len(shares) < MaxRecords
    /\ shares' = addShare(shares, now, difficulty, accepted)
    /\ last' = [NoLast EXCEPT !.op = "addShare", !.shares = <<<<difficulty, accepted>>>>]
    /\ UNCHANGED <<connectionId, miners, conn, socks, timers, feeShareCounter, now,
                   submitSeq, redirected, heard, server, emitted, trace>>
    /\ UNCHANGED fixedVars
    /\ UNCHANGED lifeVars
    /\ UNCHANGED codecVars

\* time passes
TickTo(t) ==
    /\ t > now
    /\ now' = t
    /\ last' = [NoLast EXCEPT !.op = "tick"]
    /\ UNCHANGED <<connectionId, miners, conn, socks, timers, feeShareCounter,
                   submitSeq, redirected, heard, server, emitted, trace>>
    /\ UNCHANGED fixedVars
    /\ UNCHANGED lifeVars
    /\ UNCHANGED codecVars
    /\ UNCHANGED calcVars

InitHashrate ==
    /\ InitProxy([enabled : {FALSE}, percent : {50}],
                 [conns |-> 0, socks |-> 0, shares |-> 0, inflight |-> 0,
                  draws |-> {0}, trace |-> FALSE])
    /\ pools = OnePool
    /\ InitCodecIdle

NextHashrate ==
    \/ \E d \in HashDifficulties, a \in BOOLEAN : AddShare(d, a)
    \/ \E t \in HashClock : TickTo(t)

SpecHashrate == InitHashrate /\ [][NextHashrate]_vars

\* the accepted records of a list that fall inside the window ending at t
acceptedInWindow(recs, t, windowSeconds) ==
    {i \in 1..Len(recs) : recs[i].accepted /\ t - recs[i].timestamp < windowSeconds * 1000}

RECURSIVE difficultyOf(_, _)
difficultyOf(recs, I) ==
    IF I = {} THEN 0
    ELSE LET i == CHOOSE x \in I : TRUE
         IN  recs[i].difficulty + difficultyOf(recs, I \ {i})

\* the rate the claim gives: summed difficulty over max(now - earliest, 1 s)
referenceRate(recs, t, windowSeconds) ==
    LET I == acceptedInWindow(recs, t, windowSeconds)
        earliest == CHOOSE x \in {recs[i].timestamp : i \in I} :
                        \A i \in I : x <= recs[i].timestamp
    IN  IF I = {} THEN ZeroRate
        ELSE [total |-> difficultyOf(recs, I),
              spanMs |-> IF t - earliest >= 1000 THEN t - earliest ELSE 1000]

onlyAccepted(recs) == SelectSeq(recs, LAMBDA r : r.accepted)

rates(recs, t) == [w \in Windows |-> calculateHashrate(recs, t, w)]

\* C20: in every state the rate of each window is the summed difficulty of
\* the accepted records inside the window over max(now - earliest such
\* record, 1 s), and is what it would be without the rejected records;
\* recording a rejected share changes no rate, and adds one to the total and
\* to the rejected count of the statistics unless old records expired.
C20_RatesCountAcceptedOnly ==
    [][/\ \A w \in Windows :
             /\ calculateHashrate(shares', now', w) = referenceRate(shares', now', w)
             /\ calculateHashrate(shares', now', w)
                   = calculateHashrate(onlyAccepted(shares'), now', w)
       /\ (last'.op = "addShare" /\ ~last'.shares[1][2])
             => /\ rates(shares', now') = rates(shares, now)
                /\ getShareStats(shares').accepted <= getShareStats(shares).accepted
                /\ Len(shares') = Len(shares) + 1
                      => /\ getShareStats(shares').total = getShareStats(shares).total + 1
                         /\ getShareStats(shares').rejected
                               = getShareStats(shares).rejected + 1]_vars

\* a rejected share was recorded between two accepted ones, all inside the
\* 15-minute window and outside the 60-second one but for the last
C20_Witness ==
    /\ last.op = "addShare"
    /\ Len(shares) = 3
    /\ shares[1].accepted /\ ~shares[2].accepted /\ shares[3].accepted
    /\ calculateHashrate(shares, now, AVG_15MIN_WINDOW).total
          = shares[1].difficulty + shares[3].difficulty
    /\ calculateHashrate(shares, now, REALTIME_WINDOW).total = shares[3].difficulty
    /\ calculateHashrate(shares, now, AVG_15MIN_WINDOW).spanMs > 1000

\* ------------------------------------------------------------------------
\* The pool checker.  checkAllPools probes the enabled pools one after the
\* other; a probe is one socket: connecting, then waiting for the answer
\* to its subscribe, then closing once destroy() was called on it.  The
\* 10 s of socket.setTimeout are not measured: the timeout event may come
\* whenever the socket is connecting or waiting.
\* ------------------------------------------------------------------------
TimeoutText == "timeout"

AbnormalText == "abnormal"

ProbeErrors == {"ECONNREFUSED"}

\* what the pool may send as first chunk: a line that decodes, a line that
\* does not, and a line without its newline
ProbeReplies == {<<"a", "NL">>, <<"!", "NL">>, <<"a">>}

ProbeFrame ==
    /\ UNCHANGED <<connectionId, miners, conn, socks, timers, feeShareCounter, now,
                   submitSeq, redirected, heard, server, emitted, trace, periodic>>
    /\ UNCHANGED fixedVars
    /\ UNCHANGED codecVars
    /\ UNCHANGED calcVars

\* this.config.pools.filter(p => p.enabled)
enabledPools ==
    LET isEnabled(i) == pools[i].enabled
    IN  SelectSeq(indices(pools), isEnabled)

\* the synchronous part of checkPool(i), the loop having `rest` left
checkPool(i, rest) ==
    /\ poolStatus' = [poolStatus EXCEPT ![i].checkCount = @ + 1]
    /\ probe' = [st |-> "connecting", pool |-> i, todo |-> rest, startTime |-> now,
                 latency |-> 0, resolved |-> FALSE]

\* the setInterval callback (and the call in start): checkAllPools up to
\* its first await
CheckAllPools ==
    /\ "check" \in periodic.armed
    /\ probe.st = "idle"
    /\ probe.todo = <<>>
    /\ enabledPools # <<>>
    /\ \A i \in 1..Len(pools) : poolStatus[i].checkCount < MaxChecks
    /\ checkPool(Head(enabledPools), Tail(enabledPools))
    /\ last' = [NoLast EXCEPT !.op = "checkAllPools", !.pool = Head(enabledPools)]
    /\ ProbeFrame

\* checkAllPools resumed after a probe: the next iteration of its loop
CheckNextPool ==
    /\ probe.st = "idle"
    /\ probe.todo # <<>>
    /\ checkPool(Head(probe.todo), Tail(probe.todo))
    /\ last' = [NoLast EXCEPT !.op = "checkNextPool", !.pool = Head(probe.todo)]
    /\ ProbeFrame

\* socket.on('connect'): the subscribe is written, the data listener added
ProbeConnect ==
    /\ probe.st = "connecting"
    /\ probe' = [probe EXCEPT !.st = "waiting", !.latency = now - probe.startTime]
    /\ last' = [NoLast EXCEPT !.op = "probeConnect", !.pool = probe.pool]
    /\ UNCHANGED poolStatus
    /\ ProbeFrame

\* cleanup(), followed by resolve
cleanup(p) == IF p.resolved THEN p ELSE [p EXCEPT !.resolved = TRUE, !.st = "closing"]

\* socket.once('data')
ProbeData(data) ==
    /\ probe.st = "waiting"
    /\ LET messages == parse(<<>>, data).messages
       IN  poolStatus' =
               IF Len(messages) > 0
               THEN [poolStatus EXCEPT ![probe.pool].connected = TRUE,
                                       ![probe.pool].latency = probe.latency,
                                       ![probe.pool].error = "null",
                                       ![probe.pool].successCount = @ + 1]
               ELSE [poolStatus EXCEPT ![probe.pool].connected = TRUE,
                                       ![probe.pool].latency = probe.latency,
                                       ![probe.pool].error = AbnormalText,
                                       ![probe.pool].successCount = @ + 1]
    /\ probe' = cleanup(probe)
    /\ last' = [NoLast EXCEPT !.op = "probeData", !.pool = probe.pool,
                              !.toMiner = parse(<<>>, data).messages]
    /\ ProbeFrame

\* what the timeout and the error listener write
probeFailed(text) ==
    [poolStatus EXCEPT ![probe.pool].connected = FALSE,
                       ![probe.pool].latency = 0,
                       ![probe.pool].error = text,
                       ![probe.pool].failCount = @ + 1]

\* socket.on('timeout')
ProbeTimeout ==
    /\ probe.st \in {"connecting", "waiting"}
    /\ poolStatus' = probeFailed(TimeoutText)
    /\ probe' = cleanup(probe)
    /\ last' = [NoLast EXCEPT !.op = "probeTimeout", !.pool = probe.pool]
    /\ ProbeFrame

\* socket.on('error')
ProbeError(e) ==
    /\ probe.st \in {"connecting", "waiting"}
    /\ poolStatus' = probeFailed(e)
    /\ probe' = cleanup(probe)
    /\ last' = [NoLast EXCEPT !.op = "probeError", !.pool = probe.pool]
    /\ ProbeFrame

\* socket.on('close'): after destroy(), or when the pool ends the
\* connection it accepted before sending anything
ProbeClose ==
    /\ probe.st \in {"waiting", "closing"}
    /\ probe' = [cleanup(probe) EXCEPT !.st = "idle"]
    /\ last' = [NoLast EXCEPT !.op = "probeClose", !.pool = probe.pool]
    /\ UNCHANGED poolStatus
    /\ ProbeFrame

\* ------------------------------------------------------------------------
\* SpecProbe: the pool checker alone, for one or two pools, the second one
\* enabled or not, with a clock that advances
\* ------------------------------------------------------------------------
InitProbe ==
    /\ InitProxy([enabled : {FALSE}, percent : {50}],
                 [conns |-> 0, socks |-> 0, shares |-> 0, inflight |-> 0,
                  draws |-> {0}, trace |-> FALSE])
    /\ pools \in {OnePool, CoinPools, CoinPoolsAleoOff}
    /\ InitCodecIdle

NextProbe ==
    \/ CheckAllPools
    \/ CheckNextPool
    \/ ProbeConnect
    \/ \E data \in ProbeReplies : ProbeData(data)
    \/ ProbeTimeout
    \/ \E e \in ProbeErrors : ProbeError(e)
    \/ ProbeClose
    \/ Tick
    \/ CheckerStop

SpecProbe == InitProbe /\ [][NextProbe]_vars

\* the step completes a probe: its promise is resolved
Completes == probe.st \in {"connecting", "waiting"} /\ ~probe.resolved /\ probe'.resolved

\* C31: every step that completes a probe writes the record of the probed
\* pool from the outcome: a first chunk holding a decodable line gives
\* connected with the latency measured at connect and no error, any other
\* first chunk gives connected with the annotation, a timeout or an error
\* gives not connected with the text of the failure; no other step
\* completes a probe.
C31_ProbeOutcomeRecorded ==
    [][Completes
          => LET status == poolStatus'[probe.pool]
             IN  \/ /\ last'.op = "probeData"
                    /\ last'.toMiner # <<>>
                    /\ status.connected
                    /\ status.latency = probe.latency
                    /\ status.error = "null"
                 \/ /\ last'.op = "probeData"
                    /\ last'.toMiner = <<>>
                    /\ status.connected
                    /\ status.error = AbnormalText
                 \/ /\ last'.op = "probeTimeout"
                    /\ ~status.connected
                    /\ status.error = TimeoutText
                 \/ /\ last'.op = "probeError"
                    /\ ~status.connected
                    /\ status.error \in ProbeErrors]_vars

\* C40: in every state, for every pool that has no probe in flight, the
\* checks counted are the successes plus the failures counted.
C40_ChecksAreSuccessesPlusFailures ==
    \A i \in 1..Len(pools) :
        (probe.pool # i \/ probe.resolved)
            => poolStatus[i].checkCount
                   = poolStatus[i].successCount + poolStatus[i].failCount

====
